---- MODULE Spec2Model ----
(***************************************************************************)
(* Model of the raidcom IOLimit (SPM) collection scripts:                  *)
(*   limit4  = src/4_limit.py          single array, everything in main    *)
(*   multi5  = src/5_io_v36_multi.py   arrays in chunks of worker threads  *)
(*   multi6  = src/6_io_multi_.py      variant of multi5                   *)
(*   iolimit6 = src/6_iolimit_v36.py   single array named on the command   *)
(*                                     line                                *)
(* A run executes one script.  External commands are the environment: each *)
(* invocation exits with a status and an output drawn from small sets.     *)
(* A command output is a text: a sequence of lines, a line a sequence of   *)
(* whitespace-separated tokens.                                            *)
(***************************************************************************)
EXTENDS Integers, Sequences, FiniteSets, TLC

VARIABLES
    script,          \* the script this run executes
    threadsArg,      \* args.threads (--threads)
    mpc,             \* position of the main thread
    exitCode,        \* process exit status, -1 while the process runs
    fatal,           \* history: why the run body was abandoned, "none" if not
    issued,          \* history: kinds of external commands issued so far
    loginRc,         \* history: exit status of the login command, -1 if not run
    anyFailed,       \* history: some external command exited non-zero
    serial_numbers,  \* main: result of discovery
    serial_chunks,   \* main: list(chunk_list(serial_numbers, chunk_size))
    chunkIdx,        \* main: index of the chunk being processed
    threads,         \* process_serial_chunk: threads started for the chunk
    joinIdx,         \* process_serial_chunk: next thread to join
    w,               \* worker frames, one per array serial
    m,               \* collection frame of the main thread (limit4)
    data_lock,       \* "free" or the serial of the worker holding the lock
    all_spm_data,    \* the accumulation list
    unique_data,     \* main: records after deduplication and annotation
    files,           \* report files written, in order
    sendIdx,         \* delivery: index in files of the file being sent
    sendStep,        \* delivery: next command of send_scp_file
    copied,          \* history: files whose scp command exited zero
    raw_data,        \* text printed by the command whose output is parsed whole
    delivered,       \* history: the values send_scp_file returned, in call order
    warnings         \* history: kinds of LOG.warning lines written

vars == <<script, threadsArg, mpc, exitCode, fatal, issued, loginRc, anyFailed,
          serial_numbers, serial_chunks, chunkIdx, threads, joinIdx, w, m,
          data_lock, all_spm_data, unique_data, files, sendIdx, sendStep, copied,
          raw_data, delivered, warnings>>

----------------------------------------------------------------------------
\* Bounds of the model
MaxThreadsArg == 2      \* --threads ranges over 1..MaxThreadsArg
MaxLen == 3             \* longest record sequence given to the pure functions
MaxList == 5            \* longest list given to chunk_list
MaxTokens == 4          \* most tokens in an enumeration output

\* Program constants
chunk_size == 2         \* main: "Always process 2 serial numbers at a time"
MinParts == 4           \* "if len(parts) >= 4"

Scripts == {"limit4", "multi5", "multi6", "iolimit6"}
Serials == {"50001", "50002", "50003"}
TIME_EPOCH == "1762400000"

----------------------------------------------------------------------------
\* Sequence helpers
Range(s) == {s[i] : i \in 1..Len(s)}

Min(a, b) == IF a < b THEN a ELSE b

RECURSIVE Flatten(_)
Flatten(text) == IF text = <<>> THEN <<>> ELSE Head(text) \o Flatten(Tail(text))

IndexOf(seq, x) ==
    IF x \in Range(seq) THEN CHOOSE i \in 1..Len(seq) :
                                 seq[i] = x /\ \A j \in (i+1)..Len(seq) : seq[j] # x
    ELSE 0

\* str.isdigit() on a token
Digits == {"0", "1", "2", "3", "4", "5", "6", "7", "8", "9"}
isdigit(tok) == Len(tok) > 0 /\ \A i \in 1..Len(tok) : SubSeq(tok, i, i) \in Digits

\* re.findall(pattern, output), the pattern given as a predicate on tokens
HexDigits == Digits \cup {"a", "b", "c", "d", "e", "f"}
IsSerial5(tok) == Len(tok) = 5 /\ SubSeq(tok, 1, 1) = "5" /\ isdigit(tok)
IsSerial6(tok) == Len(tok) = 6 /\ SubSeq(tok, 1, 1) = "5" /\ isdigit(tok)
Upper == {"A", "B", "C", "D", "E", "F", "G", "H", "I", "J", "K", "L", "M",
          "N", "O", "P", "Q", "R", "S", "T", "U", "V", "W", "X", "Y", "Z"}
IsPortId(tok)  == Len(tok) = 7 /\ SubSeq(tok, 1, 2) = "CL" /\ SubSeq(tok, 3, 3) \in Digits
                  /\ SubSeq(tok, 4, 4) = "-" /\ SubSeq(tok, 5, 5) \in Upper
                  /\ SubSeq(tok, 6, 6) = "-" /\ SubSeq(tok, 7, 7) \in Upper
IsWwpn(tok)    == Len(tok) = 16 /\ \A i \in 1..16 : SubSeq(tok, i, i) \in HexDigits

RECURSIVE findall(_, _)
findall(P(_), toks) ==
    IF toks = <<>> THEN <<>>
    ELSE (IF P(Head(toks)) THEN <<Head(toks)>> ELSE <<>>) \o findall(P, Tail(toks))

\* int(tok) for a token of digits
DigitVal(c) == CHOOSE d \in 0..9 : SubSeq("0123456789", d + 1, d + 1) = c

RECURSIVE int(_)
int(tok) == IF Len(tok) = 0 THEN 0
            ELSE 10 * int(SubSeq(tok, 1, Len(tok) - 1)) + DigitVal(SubSeq(tok, Len(tok), Len(tok)))

\* the digits-only-else-zero coercion: int(x) if x.isdigit() else 0
IntOrZero(tok) == IF isdigit(tok) THEN int(tok) ELSE 0

----------------------------------------------------------------------------
\* Pure functions of the scripts

\* parse_csv_content(content, " "): the rows with at least as many values as
\* the header line, each a mapping header -> value (a later duplicate header
\* overwrites an earlier one)
RowDict(headers, values) ==
    [h \in Range(headers) |-> values[IndexOf(headers, h)]]

RECURSIVE ParseRows(_, _)
ParseRows(headers, lines) ==
    IF lines = <<>> THEN <<>>
    ELSE (IF Head(lines) # <<>> /\ Len(Head(lines)) >= Len(headers)
          THEN <<RowDict(headers, Head(lines))>> ELSE <<>>)
         \o ParseRows(headers, Tail(lines))

parse_csv_content(content) ==
    IF content = <<>> THEN <<>> ELSE ParseRows(Head(content), Tail(content))

\* row.get(key, '')
RowGet(row, key) == IF key \in DOMAIN row THEN row[key] ELSE ""

\* ":".join(host_wwpn[i:i+2] for i in range(0, len(host_wwpn), 2))
RECURSIVE JoinPairs(_, _)
JoinPairs(s, i) ==
    IF i > Len(s) THEN ""
    ELSE (IF i > 1 THEN ":" ELSE "") \o SubSeq(s, i, Min(i + 1, Len(s))) \o JoinPairs(s, i + 2)

formatted_wwpn(host_wwpn) == JoinPairs(host_wwpn, 1)

\* mutant: a last group shorter than size is not yielded
RECURSIVE chunk_list_DropShort(_, _)
chunk_list_DropShort(lst, size) ==
    IF Len(lst) < size THEN <<>>
    ELSE <<SubSeq(lst, 1, size)>>
         \o chunk_list_DropShort(SubSeq(lst, size + 1, Len(lst)), size)

\* chunk_list(lst, chunk_size)
RECURSIVE chunk_list(_, _)
chunk_list(lst, size) ==
    IF lst = <<>> THEN <<>>
    ELSE <<SubSeq(lst, 1, Min(size, Len(lst)))>>
         \o chunk_list(SubSeq(lst, size + 1, Len(lst)), size)

\* mutant: seen.add(serial) is missing
RECURSIVE UniqueLoop_NoSeen(_, _, _)
UniqueLoop_NoSeen(items, seen, unique) ==
    IF items = <<>> THEN unique
    ELSE UniqueLoop_NoSeen(Tail(items), seen, Append(unique, Head(items)))

\* get_serial_numbers: "Remove duplicates while preserving order"
RECURSIVE UniqueLoop(_, _, _)
UniqueLoop(items, seen, unique) ==
    IF items = <<>> THEN unique
    ELSE IF Head(items) \in seen THEN UniqueLoop(Tail(items), seen, unique)
         ELSE UniqueLoop(Tail(items), seen \cup {Head(items)}, Append(unique, Head(items)))

unique_serials(serial_tokens) == UniqueLoop(serial_tokens, {}, <<>>)

\* mutant: the key leaves out the WWPN
DedupKey_NoWwpn(item) == <<item.HostNickname, item.ArrayPort>>

\* main: key = (item["HostNickname"], item["ArrayPort"], item["HostWWPN"])
DedupKey(item) == <<item.HostNickname, item.ArrayPort, item.HostWWPN>>

\* mutant: unique_data.insert(0, item) instead of append
RECURSIVE DedupeLoop_Prepend(_, _, _)
DedupeLoop_Prepend(items, seen, unique) ==
    IF items = <<>> THEN unique
    ELSE IF DedupKey(Head(items)) \in seen THEN DedupeLoop_Prepend(Tail(items), seen, unique)
         ELSE DedupeLoop_Prepend(Tail(items), seen \cup {DedupKey(Head(items))},
                                 <<Head(items)>> \o unique)

\* main: "Remove duplicates based on specific columns"
RECURSIVE DedupeLoop(_, _, _)
DedupeLoop(items, seen, unique) ==
    IF items = <<>> THEN unique
    ELSE IF DedupKey(Head(items)) \in seen THEN DedupeLoop(Tail(items), seen, unique)
         ELSE DedupeLoop(Tail(items), seen \cup {DedupKey(Head(items))},
                         Append(unique, Head(items)))

dedupe(records) == DedupeLoop(records, {}, <<>>)

\* calculate_percentage: round(kbps / limit * 100, 2), given in hundredths of
\* a percent (5000 is 50.0); ties round to even
RoundDiv(a, b) ==
    LET q == a \div b
        r == a % b
    IN  IF 2 * r > b \/ (2 * r = b /\ q % 2 = 1) THEN q + 1 ELSE q

\* mutant: the quotient is truncated, not rounded
calculate_percentage_Truncated(monitor_kbps, spml_limit_kbps) ==
    IF monitor_kbps # 0 /\ spml_limit_kbps # 0 /\ spml_limit_kbps > 0
    THEN (monitor_kbps * 10000) \div spml_limit_kbps
    ELSE 0

calculate_percentage(monitor_kbps, spml_limit_kbps) ==
    IF monitor_kbps # 0 /\ spml_limit_kbps # 0 /\ spml_limit_kbps > 0
    THEN RoundDiv(monitor_kbps * 10000, spml_limit_kbps)
    ELSE 0

\* main: "Calculate percentage utilization"
annotate(records) ==
    [i \in 1..Len(records) |->
        [f \in DOMAIN records[i] \cup {"SPMLimitUtilPct"} |->
            IF f = "SPMLimitUtilPct"
            THEN calculate_percentage(records[i].MonitorKBps, records[i].SPMLimitKBps)
            ELSE records[i][f]]]

----------------------------------------------------------------------------
\* Building records from the output of one per-WWPN query

\* the local variable host_group: unbound until the first assignment
Unbound == [bound |-> FALSE, val |-> <<>>]

MagicWwpn == "10009440c9d0b045"
IsMagicWwpn(tok) == tok = MagicWwpn
IsHostGroupLiteral(tok) == tok = "host_pattern, host_nickname.values[0]"

\* host_group after the per-row nickname lookup: assigned only when the
\* nickname pattern is found in host_output
HostGroupAfter(hg, host_output, spm_data) ==
    IF spm_data # <<>> /\ findall(IsMagicWwpn, Flatten(host_output)) # <<>>
    THEN [bound |-> TRUE, val |-> findall(IsHostGroupLiteral, Flatten(host_output))]
    ELSE hg

\* host_group[0] if 'host_group' in locals(): IndexError on an empty list
RaisesIndexError(hg) == hg.bound /\ hg.val = <<>>

\* limit4: int(smp_value) if 'spm_value' in locals() and spm_value.isdigit()
\* names an undefined variable: NameError when the condition holds
RaisesNameError(spm_value) == isdigit(spm_value)

\* mutant: the serial is read from the last column of the output line
ArraySerialOf_FromOutput(serial_number, parts) == parts[Len(parts)]

\* "ArraySerial": serial_number
ArraySerialOf(serial_number, parts) == serial_number

spm_data_entry(serial_number, port_id, host_wwpn, hg, row, parts) ==
    [ArraySerial          |-> ArraySerialOf(serial_number, parts),
     ArrayPort            |-> port_id,
     HostNickname         |-> IF hg.bound /\ hg.val # <<>> THEN hg.val[1] ELSE "Unknown",
     HostGroup            |-> IF hg.bound THEN hg.val[1] ELSE "",
     HostWWPN             |-> formatted_wwpn(host_wwpn),
     MonitorIOps          |-> IntOrZero(parts[3]),
     MonitorKBps          |-> IntOrZero(parts[4]),
     SPMLimitKBps         |-> IntOrZero(RowGet(row, "KBps")),
     SPMPriority          |-> RowGet(row, "Pri"),
     SourceLoadTimeEpoch  |-> TIME_EPOCH,
     SourceName           |-> "HostIOLimit",
     BatchCreateTimeEpoch |-> TIME_EPOCH]

\* the element of a one-element set; it gives a sub-result a single evaluation
The(S) == CHOOSE x \in S : TRUE

\* the entries one parsed row contributes: one per output line after the
\* header with at least MinParts columns; the first entry built raises when
\* host_group is an empty list or (limit4) the KBps column is all digits
RowEntries(ctx, row) ==
    The({ LET raises == /\ lines # <<>>
                        /\ \/ RaisesIndexError(ctx.hg)
                           \/ ctx.is4 /\ RaisesNameError(RowGet(r, "KBps"))
          IN  [raised  |-> raises,
               entries |-> IF raises THEN <<>>
                           ELSE [i \in 1..Len(lines) |->
                                    spm_data_entry(ctx.serial, ctx.port_id, ctx.host_wwpn,
                                                   ctx.hg, r, lines[i])]]
          : lines \in {SelectSeq(Tail(ctx.spm_output), LAMBDA l : Len(l) >= MinParts)},
            r \in {row} })

RECURSIVE RowsLoop(_, _, _)
RowsLoop(ctx, rows, acc) ==
    IF rows = <<>> THEN [raised |-> FALSE, entries |-> acc]
    ELSE The({ IF r.raised THEN [raised |-> TRUE, entries |-> acc]
               ELSE RowsLoop(ctx, Tail(rows), acc \o r.entries)
               : r \in {RowEntries(ctx, Head(rows))} })

\* "if spm_data: for row in spm_data: ..." for one host_wwpn
BuildEntries(is4, serial, port_id, host_wwpn, hg0, host_output, spm_output) ==
    The({ The({ The({ [raised |-> r.raised, entries |-> r.entries, host_group |-> hg]
                      : r \in {RowsLoop([is4 |-> is4, serial |-> serial, port_id |-> port_id,
                                         host_wwpn |-> host_wwpn, hg |-> hg,
                                         spm_output |-> spm_output], spm_data, <<>>)} })
                : hg \in {HostGroupAfter(hg0, host_output, spm_data)} })
          : spm_data \in {parse_csv_content(spm_output)} })

----------------------------------------------------------------------------
\* Outputs the external commands may print

RaidqryOutputs ==
    { << <<"No", "Group", "Hostname">> >>,
      << <<"No", "Serial#">>, <<"1", "50001">> >>,
      << <<"No", "Serial#">>, <<"1", "50001">>, <<"2", "50002">>, <<"3", "50001">> >>,
      << <<"No", "Serial#">>, <<"1", "50001">>, <<"2", "50002">>, <<"3", "50003">> >> }

Limit4PortOutputs ==
    { << <<"PORT", "TYPE", "Serial#">> >>,
      << <<"PORT", "TYPE", "Serial#">>, <<"CL1-A-A", "FIBRE", "512345">> >> }

PortOutputs ==
    { <<>>,
      << <<"CL1-A-A", "FIBRE", "TAR">> >>,
      << <<"CL1-A-A", "FIBRE", "TAR">>, <<"CL2-B-B", "FIBRE", "TAR">> >> }

HostHeader == <<"PORT", "SPM_MD", "SPM_WWN", "NICK_NAME">>
HostOutputs ==
    { <<>>,
      << HostHeader >>,
      << HostHeader, <<"CL1-A", "WWN", "50060e8005fa0f36", "hostA">> >>,
      << HostHeader, <<"CL1-A", "WWN", MagicWwpn, "hostB">> >> }

SpmHeader == <<"PORT", "SPM_MD", "PRI", "IOps", "KBps", "Serial#">>
SpmOutputs ==
    { << SpmHeader, <<"CL1-A", "WWN", "NP", "500", "1000", "63528">> >>,
      << SpmHeader, <<"CL1-A", "WWN", "NP", "700", "-", "63528">>,
                    <<"CL1-A", "WWN", "NP", "900", "-", "63528">> >> }

ExitStatus == {0, 1}

----------------------------------------------------------------------------
\* mutant: a failed command is logged and run_command returns
run_command_NoExit(rc, stdout) ==
    [exited |-> FALSE, stdout |-> IF rc = 0 THEN stdout ELSE <<>>]

\* run_command: the output of a command that exited zero, sys.exit(1)
\* (SystemExit raised in the calling thread) otherwise
run_command(rc, stdout) ==
    IF rc = 0 THEN [exited |-> FALSE, stdout |-> stdout]
    ELSE [exited |-> TRUE, stdout |-> <<>>]

----------------------------------------------------------------------------
\* The collection loop over ports and WWPNs (process_serial_number; the same
\* loop runs in main in limit4).  A frame holds the loop's local variables.

IdleFrame ==
    [pc |-> "idle", port_ids |-> <<>>, pi |-> 0, host_output |-> <<>>,
     wwpns |-> <<>>, wi |-> 0, host_group |-> Unbound,
     local_spm_data |-> <<>>, failed |-> "none"]

\* "for port_id in port_ids": the next port, or the end of the loop
NextPort(f) ==
    IF f.pi < Len(f.port_ids)
    THEN [f EXCEPT !.pc = "host_cmd", !.pi = f.pi + 1, !.host_output = <<>>,
                   !.wwpns = <<>>, !.wi = 0]
    ELSE [f EXCEPT !.pc = "collected", !.host_output = <<>>, !.wwpns = <<>>, !.wi = 0]

\* port_ids = re.findall(r'CL\d-[A-Z]-[A-Z]', port_output)
AfterPort(f, port_output) ==
    NextPort([f EXCEPT !.port_ids = findall(IsPortId, Flatten(port_output)), !.pi = 0])

\* "if not host_output: continue", "if not host_data: continue", then the
\* loop over the WWPNs found in host_output
AfterHost(f, host_output) ==
    LET wwpns == findall(IsWwpn, Flatten(host_output))
    IN  IF host_output = <<>> \/ parse_csv_content(host_output) = <<>> \/ wwpns = <<>>
        THEN NextPort(f)
        ELSE [f EXCEPT !.pc = "spm_cmd", !.host_output = host_output,
                       !.wwpns = wwpns, !.wi = 1]

\* "for host_wwpn in wwpns": the next WWPN, or the next port
NextWwpn(f) ==
    IF f.wi < Len(f.wwpns) THEN [f EXCEPT !.pc = "spm_cmd", !.wi = f.wi + 1]
    ELSE NextPort(f)

\* the records of one per-WWPN query and the frame after it
AfterSpm(f, is4, serial, spm_output) ==
    The({ [raised  |-> b.raised,
           entries |-> b.entries,
           frame   |-> NextWwpn([f EXCEPT !.host_group = b.host_group])]
          : b \in {BuildEntries(is4, serial, f.port_ids[f.pi], f.wwpns[f.wi],
                                f.host_group, f.host_output, spm_output)} })

Terminated == {"done", "dead"}
AtCommand  == {"port_cmd", "host_cmd", "spm_cmd"}

----------------------------------------------------------------------------
Init ==
    /\ script \in Scripts
    /\ threadsArg \in 1..MaxThreadsArg
    /\ mpc = "args"
    /\ exitCode = -1
    /\ fatal = "none"
    /\ issued = {}
    /\ loginRc = -1
    /\ anyFailed = FALSE
    /\ serial_numbers = <<>>
    /\ serial_chunks = <<>>
    /\ chunkIdx = 0
    /\ threads = <<>>
    /\ joinIdx = 0
    /\ w = [s \in Serials |-> IdleFrame]
    /\ m = IdleFrame
    /\ data_lock = "free"
    /\ all_spm_data = <<>>
    /\ unique_data = <<>>
    /\ files = <<>>
    /\ sendIdx = 0
    /\ sendStep = "none"
    /\ copied = {}
    /\ raw_data = <<>>
    /\ delivered = <<>>
    /\ warnings = {}

\* what main's try statement does with an Exception raised in its body
except_limit4 == [pc |-> "exit", code |-> 0]      \* LOG.critical only
except_multi6 == [pc |-> "exit", code |-> 1]      \* LOG.critical, sys.exit(1)
except_iolimit6 == [pc |-> "exit", code |-> 1]    \* LOG.error, sys.exit(1)
\* ... and with SystemExit, which "except Exception" does not catch: the
\* interpreter exits with the status given to sys.exit
uncaught_SystemExit == [pc |-> "exit", code |-> 1]
\* multi5: the source ends inside the try block; a fatal error attempts
\* logout and exits non-zero
fatal_multi5 == [pc |-> "fatal", code |-> -1]

Handler(kind) ==
    CASE script = "multi5" -> fatal_multi5
      [] script = "limit4" -> IF kind = "Exception" THEN except_limit4 ELSE uncaught_SystemExit
      [] script = "multi6" -> IF kind = "Exception" THEN except_multi6 ELSE uncaught_SystemExit
      [] script = "iolimit6" -> IF kind = "Exception" THEN except_iolimit6 ELSE uncaught_SystemExit

\* the run body is abandoned by an exception of class `kind`
Raise(kind, cause) ==
    /\ fatal' = cause
    /\ mpc' = Handler(kind).pc
    /\ exitCode' = Handler(kind).code

Issue(kind, rc) ==
    /\ issued' = issued \cup {kind}
    /\ anyFailed' = (anyFailed \/ rc # 0)

\* LOG.warning(...) of the given kind, written when cond holds
Warn(kind, cond) == warnings' = IF cond THEN warnings \cup {kind} ELSE warnings

UNCHANGED_collect == UNCHANGED <<serial_numbers, serial_chunks, chunkIdx, threads, joinIdx,
                                 w, m, data_lock, all_spm_data>>
UNCHANGED_report  == UNCHANGED <<unique_data, files, sendIdx, sendStep, copied>>

\* main: parse the arguments, read the configuration, take the timestamps
ParseArgs ==
    /\ mpc = "args"
    /\ \E cfgOk \in BOOLEAN :
          IF cfgOk THEN mpc' = "login" /\ UNCHANGED <<fatal, exitCode>>
          ELSE Raise("Exception", "exception")
    /\ all_spm_data' = <<>>
    /\ UNCHANGED <<script, threadsArg, issued, loginRc, anyFailed, serial_numbers,
                   serial_chunks, chunkIdx, threads, joinIdx, w, m, data_lock>>
    /\ UNCHANGED_report
    /\ UNCHANGED <<raw_data, delivered, warnings>>

\* mutant: a failed login is tried again
Login_Retry ==
    /\ mpc = "login"
    /\ \E rc \in ExitStatus :
          /\ Issue("login", rc)
          /\ loginRc' = rc
          /\ IF run_command(rc, <<>>).exited THEN UNCHANGED <<mpc, fatal, exitCode>>
             ELSE mpc' = "discover" /\ UNCHANGED <<fatal, exitCode>>
    /\ UNCHANGED <<script, threadsArg>>
    /\ UNCHANGED_collect
    /\ UNCHANGED_report
    /\ UNCHANGED <<raw_data, delivered, warnings>>

\* main: "Login to instance"
Login ==
    /\ mpc = "login"
    /\ \E rc \in ExitStatus :
          /\ Issue("login", rc)
          /\ loginRc' = rc
          /\ IF run_command(rc, <<>>).exited THEN Raise("SystemExit", "login")
             ELSE mpc' = "discover" /\ UNCHANGED <<fatal, exitCode>>
    /\ UNCHANGED <<script, threadsArg>>
    /\ UNCHANGED_collect
    /\ UNCHANGED_report
    /\ UNCHANGED <<raw_data, delivered, warnings>>

\* get_serial_numbers
get_serial_numbers(output) ==
    LET serial_tokens == findall(IsSerial5, Flatten(output))
    IN  IF serial_tokens = <<>> THEN <<>> ELSE unique_serials(serial_tokens)

\* multi5, multi6: "Get all serial numbers from raidqry -l", exit when none
Discover ==
    /\ mpc = "discover"
    /\ script \in {"multi5", "multi6"}
    /\ \E rc \in ExitStatus, output \in RaidqryOutputs :
          /\ Issue("raidqry", rc)
          /\ Warn("no_serials", ~run_command(rc, output).exited
                                  /\ get_serial_numbers(run_command(rc, output).stdout) = <<>>)
          /\ IF run_command(rc, output).exited
             THEN Raise("SystemExit", "command") /\ UNCHANGED serial_numbers
             ELSE LET found == get_serial_numbers(run_command(rc, output).stdout)
                  IN  /\ serial_numbers' = found
                      /\ IF found = <<>> THEN Raise("SystemExit", "no_serials")
                         ELSE mpc' = "chunk" /\ UNCHANGED <<fatal, exitCode>>
    /\ UNCHANGED <<script, threadsArg, loginRc, serial_chunks, chunkIdx, threads, joinIdx,
                   w, m, data_lock, all_spm_data>>
    /\ UNCHANGED_report
    /\ UNCHANGED <<raw_data, delivered>>

\* main: serial_chunks = list(chunk_list(serial_numbers, chunk_size))
MakeChunks ==
    /\ mpc = "chunk"
    /\ serial_chunks' = chunk_list(serial_numbers, chunk_size)
    /\ chunkIdx' = 1
    /\ threads' = <<>>
    /\ mpc' = "spawn"
    /\ UNCHANGED <<script, threadsArg, exitCode, fatal, issued, loginRc, anyFailed,
                   serial_numbers, joinIdx, w, m, data_lock, all_spm_data>>
    /\ UNCHANGED_report
    /\ UNCHANGED <<raw_data, delivered, warnings>>

\* multi6: main calls process_serial_chunk with six arguments, the function
\* takes five: TypeError
CallChunk6 ==
    /\ mpc = "spawn"
    /\ script = "multi6"
    /\ Raise("Exception", "exception")
    /\ UNCHANGED <<script, threadsArg, issued, loginRc, anyFailed>>
    /\ UNCHANGED_collect
    /\ UNCHANGED_report
    /\ UNCHANGED <<raw_data, delivered, warnings>>

\* process_serial_chunk: create and start the thread of the next serial
StartThread ==
    /\ mpc = "spawn"
    /\ script = "multi5"
    /\ LET chunk == serial_chunks[chunkIdx]
           sn    == chunk[Len(threads) + 1]
       IN  /\ w' = [w EXCEPT ![sn] = [IdleFrame EXCEPT !.pc = "port_cmd"]]
           /\ threads' = Append(threads, sn)
           /\ IF Len(threads) + 1 = Len(chunk)
              THEN mpc' = "join" /\ joinIdx' = 1
              ELSE UNCHANGED <<mpc, joinIdx>>
    /\ UNCHANGED <<script, threadsArg, exitCode, fatal, issued, loginRc, anyFailed,
                   serial_numbers, serial_chunks, chunkIdx, m, data_lock, all_spm_data>>
    /\ UNCHANGED_report
    /\ UNCHANGED <<raw_data, delivered, warnings>>

\* mutant: the join loop does not wait for the thread
JoinThread_NoWait ==
    /\ mpc = "join"
    /\ IF joinIdx < Len(threads)
       THEN joinIdx' = joinIdx + 1 /\ UNCHANGED <<mpc, chunkIdx, threads>>
       ELSE /\ joinIdx' = 0
            /\ threads' = <<>>
            /\ IF chunkIdx < Len(serial_chunks)
               THEN chunkIdx' = chunkIdx + 1 /\ mpc' = "spawn"
               ELSE chunkIdx' = chunkIdx /\ mpc' = "dedupe"
    /\ w' = IF joinIdx < Len(threads) THEN w
            ELSE [s \in Serials |-> IF w[s].pc \in Terminated
                                    THEN [IdleFrame EXCEPT !.pc = "joined"]
                                    ELSE w[s]]
    /\ UNCHANGED <<script, threadsArg, exitCode, fatal, issued, loginRc, anyFailed,
                   serial_numbers, serial_chunks, m, data_lock, all_spm_data>>
    /\ UNCHANGED_report
    /\ UNCHANGED <<raw_data, delivered, warnings>>

\* mutant: join() returns only for a thread that ran to its end
JoinThread_DoneOnly ==
    /\ mpc = "join"
    /\ w[threads[joinIdx]].pc = "done"
    /\ IF joinIdx < Len(threads)
       THEN joinIdx' = joinIdx + 1 /\ UNCHANGED <<mpc, chunkIdx, threads>>
       ELSE /\ joinIdx' = 0
            /\ threads' = <<>>
            /\ IF chunkIdx < Len(serial_chunks)
               THEN chunkIdx' = chunkIdx + 1 /\ mpc' = "spawn"
               ELSE chunkIdx' = chunkIdx /\ mpc' = "dedupe"
    /\ w' = IF joinIdx < Len(threads) THEN w
            ELSE [s \in Serials |-> IF w[s].pc \in Terminated
                                    THEN [IdleFrame EXCEPT !.pc = "joined"]
                                    ELSE w[s]]
    /\ UNCHANGED <<script, threadsArg, exitCode, fatal, issued, loginRc, anyFailed,
                   serial_numbers, serial_chunks, m, data_lock, all_spm_data>>
    /\ UNCHANGED_report
    /\ UNCHANGED <<raw_data, delivered, warnings>>

\* process_serial_chunk: thread.join() of the next thread; after the last
\* one the function returns (its thread objects are dropped) and main goes
\* on with the next chunk, or with the report
JoinThread ==
    /\ mpc = "join"
    /\ w[threads[joinIdx]].pc \in Terminated
    /\ IF joinIdx < Len(threads)
       THEN joinIdx' = joinIdx + 1 /\ UNCHANGED <<mpc, chunkIdx, threads>>
       ELSE /\ joinIdx' = 0
            /\ threads' = <<>>
            /\ IF chunkIdx < Len(serial_chunks)
               THEN chunkIdx' = chunkIdx + 1 /\ mpc' = "spawn"
               ELSE chunkIdx' = chunkIdx /\ mpc' = "dedupe"
    /\ w' = IF joinIdx < Len(threads) THEN w
            ELSE [s \in Serials |-> IF w[s].pc \in Terminated
                                    THEN [IdleFrame EXCEPT !.pc = "joined"]
                                    ELSE w[s]]
    /\ UNCHANGED <<script, threadsArg, exitCode, fatal, issued, loginRc, anyFailed,
                   serial_numbers, serial_chunks, m, data_lock, all_spm_data>>
    /\ UNCHANGED_report
    /\ UNCHANGED <<raw_data, delivered, warnings>>

----------------------------------------------------------------------------
\* Worker threads (multi5: process_serial_number, one thread per serial)

UNCHANGED_main == UNCHANGED <<script, threadsArg, mpc, exitCode, fatal, loginRc,
                              serial_numbers, serial_chunks, chunkIdx, threads, joinIdx, m>>

\* SystemExit raised in a worker by run_command is not an Exception: the
\* handler of process_serial_number does not catch it and the thread ends
WorkerExit(f, kind) == [f EXCEPT !.pc = "dead", !.failed = kind]

\* "except Exception as e: LOG.error(...)": the worker returns
WorkerCaught(f) == [f EXCEPT !.pc = "done", !.failed = "exception"]

\* "raidcom get port" returns
W_ReturnPort(sn) ==
    /\ w[sn].pc = "port_cmd"
    /\ \E rc \in ExitStatus, output \in PortOutputs :
          /\ Issue("port", rc)
          /\ w' = [w EXCEPT ![sn] =
                      IF run_command(rc, output).exited THEN WorkerExit(w[sn], "port")
                      ELSE AfterPort(w[sn], run_command(rc, output).stdout)]
    /\ UNCHANGED <<data_lock, all_spm_data>>
    /\ UNCHANGED_main
    /\ UNCHANGED_report
    /\ UNCHANGED <<raw_data, delivered, warnings>>

\* "raidcom get spm_wwn -port" returns
W_ReturnHost(sn) ==
    /\ w[sn].pc = "host_cmd"
    /\ \E rc \in ExitStatus, output \in HostOutputs :
          /\ Issue("host", rc)
          /\ Warn("no_port_data", ~run_command(rc, output).exited
                                    /\ run_command(rc, output).stdout = <<>>)
          /\ w' = [w EXCEPT ![sn] =
                      IF run_command(rc, output).exited THEN WorkerExit(w[sn], "host")
                      ELSE AfterHost(w[sn], run_command(rc, output).stdout)]
    /\ UNCHANGED <<data_lock, all_spm_data>>
    /\ UNCHANGED_main
    /\ UNCHANGED_report
    /\ UNCHANGED <<raw_data, delivered>>

\* "raidcom get spm_wwn -port -hba_wwn" returns; its records are appended to
\* local_spm_data
W_ReturnSpm(sn) ==
    /\ w[sn].pc = "spm_cmd"
    /\ \E rc \in ExitStatus, output \in SpmOutputs :
          /\ Issue("spm", rc)
          /\ w' = [w EXCEPT ![sn] =
                      IF run_command(rc, output).exited THEN WorkerExit(w[sn], "spm")
                      ELSE The({ IF a.raised
                                 THEN WorkerCaught([w[sn] EXCEPT !.local_spm_data =
                                                        w[sn].local_spm_data \o a.entries])
                                 ELSE [a.frame EXCEPT !.local_spm_data =
                                           w[sn].local_spm_data \o a.entries]
                                 : a \in {AfterSpm(w[sn], FALSE, sn,
                                                   run_command(rc, output).stdout)} })]
    /\ UNCHANGED <<data_lock, all_spm_data>>
    /\ UNCHANGED_main
    /\ UNCHANGED_report
    /\ UNCHANGED <<raw_data, delivered, warnings>>

\* mutant: the list is extended without taking the lock
W_Acquire_NoLock(sn) ==
    /\ w[sn].pc = "collected"
    /\ w' = [w EXCEPT ![sn].pc = "extend"]
    /\ UNCHANGED <<issued, anyFailed, data_lock, all_spm_data>>
    /\ UNCHANGED_main
    /\ UNCHANGED_report
    /\ UNCHANGED <<raw_data, delivered, warnings>>

\* "with data_lock:" entered
W_Acquire(sn) ==
    /\ w[sn].pc = "collected"
    /\ data_lock = "free"
    /\ data_lock' = sn
    /\ w' = [w EXCEPT ![sn].pc = "extend"]
    /\ UNCHANGED <<issued, anyFailed, all_spm_data>>
    /\ UNCHANGED_main
    /\ UNCHANGED_report
    /\ UNCHANGED <<raw_data, delivered, warnings>>

\* mutant: all_spm_data = local_spm_data
extend_Assign(list, items) == items

\* mutant: only the first item is appended
extend_OneItem(list, items) == IF items = <<>> THEN list ELSE Append(list, items[1])

\* list.extend(items)
extend(list, items) == list \o items

\* all_spm_data.extend(local_spm_data)
W_Extend(sn) ==
    /\ w[sn].pc = "extend"
    /\ all_spm_data' = extend(all_spm_data, w[sn].local_spm_data)
    /\ w' = [w EXCEPT ![sn].pc = "release"]
    /\ UNCHANGED <<issued, anyFailed, data_lock>>
    /\ UNCHANGED_main
    /\ UNCHANGED_report
    /\ UNCHANGED <<raw_data, delivered, warnings>>

\* the with block is left: the lock is released and the worker returns
W_Release(sn) ==
    /\ w[sn].pc = "release"
    /\ data_lock' = "free"
    /\ w' = [w EXCEPT ![sn].pc = "done"]
    /\ UNCHANGED <<issued, anyFailed, all_spm_data>>
    /\ UNCHANGED_main
    /\ UNCHANGED_report
    /\ UNCHANGED <<raw_data, delivered, warnings>>

----------------------------------------------------------------------------
\* limit4: discovery and the collection loop run in the main thread

\* "Get storage array serial number": the first 6-digit serial in the output
Discover4 ==
    /\ mpc = "discover"
    /\ script = "limit4"
    /\ \E rc \in ExitStatus, output \in Limit4PortOutputs :
          /\ Issue("port", rc)
          /\ Warn("no_serials", ~run_command(rc, output).exited
                                  /\ findall(IsSerial6, Flatten(output)) = <<>>)
          /\ IF run_command(rc, output).exited
             THEN Raise("SystemExit", "command") /\ UNCHANGED <<serial_numbers, m>>
             ELSE LET serial_match == findall(IsSerial6, Flatten(output))
                  IN  IF serial_match = <<>>
                      THEN Raise("SystemExit", "no_serials") /\ UNCHANGED <<serial_numbers, m>>
                      ELSE /\ serial_numbers' = <<Head(serial_match)>>
                           /\ m' = [IdleFrame EXCEPT !.pc = "port_cmd"]
                           /\ mpc' = "collect"
                           /\ UNCHANGED <<fatal, exitCode>>
    /\ UNCHANGED <<script, threadsArg, loginRc, serial_chunks, chunkIdx, threads, joinIdx,
                   w, data_lock, all_spm_data>>
    /\ UNCHANGED_report
    /\ UNCHANGED <<raw_data, delivered>>

\* main goes on after a command of the loop returned
Collected4(frame) ==
    /\ m' = frame
    /\ mpc' = IF frame.pc = "collected" THEN "dedupe" ELSE "collect"
    /\ UNCHANGED <<fatal, exitCode>>

\* "Get port information"
Collect4Port ==
    /\ mpc = "collect"
    /\ m.pc = "port_cmd"
    /\ \E rc \in ExitStatus, output \in PortOutputs :
          /\ Issue("port", rc)
          /\ IF run_command(rc, output).exited
             THEN Raise("SystemExit", "command") /\ UNCHANGED m
             ELSE Collected4(AfterPort(m, run_command(rc, output).stdout))
    /\ UNCHANGED <<script, threadsArg, loginRc, serial_numbers, serial_chunks, chunkIdx,
                   threads, joinIdx, w, data_lock, all_spm_data>>
    /\ UNCHANGED_report
    /\ UNCHANGED <<raw_data, delivered, warnings>>

\* "Get SPM WWN information for this port"
Collect4Host ==
    /\ mpc = "collect"
    /\ m.pc = "host_cmd"
    /\ \E rc \in ExitStatus, output \in HostOutputs :
          /\ Issue("host", rc)
          /\ Warn("no_port_data", ~run_command(rc, output).exited
                                    /\ run_command(rc, output).stdout = <<>>)
          /\ IF run_command(rc, output).exited
             THEN Raise("SystemExit", "command") /\ UNCHANGED m
             ELSE Collected4(AfterHost(m, run_command(rc, output).stdout))
    /\ UNCHANGED <<script, threadsArg, loginRc, serial_numbers, serial_chunks, chunkIdx,
                   threads, joinIdx, w, data_lock, all_spm_data>>
    /\ UNCHANGED_report
    /\ UNCHANGED <<raw_data, delivered>>

\* "Get SPM monitoring data for each WWPN": the records go to all_spm_data
Collect4Spm ==
    /\ mpc = "collect"
    /\ m.pc = "spm_cmd"
    /\ \E rc \in ExitStatus, output \in SpmOutputs :
          /\ Issue("spm", rc)
          /\ IF run_command(rc, output).exited
             THEN Raise("SystemExit", "command") /\ UNCHANGED <<m, all_spm_data>>
             ELSE \E a \in {AfterSpm(m, TRUE, serial_numbers[1], run_command(rc, output).stdout)} :
                      /\ all_spm_data' = all_spm_data \o a.entries
                      /\ IF a.raised THEN Raise("Exception", "exception") /\ UNCHANGED m
                         ELSE Collected4(a.frame)
    /\ UNCHANGED <<script, threadsArg, loginRc, serial_numbers, serial_chunks, chunkIdx,
                   threads, joinIdx, w, data_lock>>
    /\ UNCHANGED_report
    /\ UNCHANGED <<raw_data, delivered, warnings>>

----------------------------------------------------------------------------
\* Report, delivery, logout

UNCHANGED_run == UNCHANGED <<script, threadsArg, loginRc>>

\* the else branch of "if all_spm_data:": limit4 logs "No SPM data to save"
else_limit4 == TRUE
\* multi5: the else branch lies after the end of the source file; the report
\* writer logs a warning when there is nothing to write
else_multi5 == TRUE
ElseWarns == IF script = "limit4" THEN else_limit4 ELSE else_multi5

\* mutant: the report is made whatever the list holds
HasData_Always(data) == TRUE

\* "if all_spm_data:"
HasData(data) == data # <<>>

\* main: "if all_spm_data:" remove duplicates, calculate the utilization
Dedupe ==
    /\ mpc = "dedupe"
    /\ IF HasData(all_spm_data)
       THEN unique_data' = annotate(dedupe(all_spm_data)) /\ mpc' = "write"
       ELSE unique_data' = unique_data /\ mpc' = "logout"
    /\ Warn("no_spm_data", ~HasData(all_spm_data) /\ ElseWarns)
    /\ UNCHANGED <<exitCode, fatal, issued, anyFailed, files, sendIdx, sendStep, copied>>
    /\ UNCHANGED_run
    /\ UNCHANGED_collect
    /\ UNCHANGED <<raw_data, delivered>>

\* write_csv_file(csv_filename, unique_data, fieldnames): nothing is written
\* for an empty list
write_csv_file(data) == IF data = <<>> THEN <<>> ELSE <<"csv">>

\* main: write the data file and the metadata file, then send both
WriteReport ==
    /\ mpc = "write"
    /\ files' = write_csv_file(unique_data) \o <<"meta">>
    /\ sendIdx' = 1
    /\ sendStep' = "mkdir"
    /\ mpc' = "send"
    /\ UNCHANGED <<exitCode, fatal, issued, anyFailed, unique_data, copied>>
    /\ UNCHANGED_run
    /\ UNCHANGED_collect
    /\ UNCHANGED <<raw_data, delivered, warnings>>

\* send_scp_file: a CalledProcessError is caught, logged and turned into
\* sys.exit(1)
SendFailed == Raise("SystemExit", "command") /\ UNCHANGED <<sendIdx, sendStep>>

\* send_scp_file returns: the next file, or logout after the last one
SendReturned ==
    /\ IF sendIdx < Len(files)
       THEN sendIdx' = sendIdx + 1 /\ sendStep' = "mkdir" /\ mpc' = mpc
       ELSE sendIdx' = 0 /\ sendStep' = "none" /\ mpc' = "logout"
    /\ UNCHANGED <<fatal, exitCode>>

\* send_scp_file: "ssh ... mkdir -p remote_path" (check=True)
SendMkdir ==
    /\ mpc = "send"
    /\ sendStep = "mkdir"
    /\ \E rc \in ExitStatus :
          /\ Issue("mkdir", rc)
          /\ IF rc # 0 THEN SendFailed
             ELSE sendStep' = "scp" /\ UNCHANGED <<mpc, fatal, exitCode, sendIdx>>
    /\ UNCHANGED <<unique_data, files, copied>>
    /\ UNCHANGED_run
    /\ UNCHANGED_collect
    /\ UNCHANGED <<raw_data, delivered, warnings>>

\* send_scp_file: "scp file_path ..." (check=True)
SendScp ==
    /\ mpc = "send"
    /\ sendStep = "scp"
    /\ \E rc \in ExitStatus :
          /\ Issue("scp", rc)
          /\ IF rc # 0 THEN SendFailed /\ UNCHANGED copied
             ELSE /\ sendStep' = "ls"
                  /\ copied' = copied \cup {files[sendIdx]}
                  /\ UNCHANGED <<mpc, fatal, exitCode, sendIdx>>
    /\ UNCHANGED <<unique_data, files>>
    /\ UNCHANGED_run
    /\ UNCHANGED_collect
    /\ UNCHANGED <<raw_data, delivered, warnings>>

\* the verdict of the remote check: "if remote_check_result.returncode == 0:
\* raise subprocess.CalledProcessError(...)"
RemoteCheckRaises(returncode) == returncode = 0

\* send_scp_file: "ssh ... ls remote_path" (no check=True), the local file
\* exists
SendLs ==
    /\ mpc = "send"
    /\ sendStep = "ls"
    /\ \E rc \in ExitStatus :
          /\ Issue("ls", rc)
          /\ IF RemoteCheckRaises(rc) THEN SendFailed ELSE SendReturned
    /\ UNCHANGED <<unique_data, files, copied>>
    /\ UNCHANGED_run
    /\ UNCHANGED_collect
    /\ UNCHANGED <<raw_data, delivered, warnings>>

\* mutant: after the logout main is again at the logout
Logout_Again ==
    /\ mpc = "logout"
    /\ \E rc \in ExitStatus :
          /\ Issue("logout", rc)
          /\ IF run_command(rc, <<>>).exited THEN Raise("SystemExit", "command")
             ELSE UNCHANGED <<mpc, exitCode, fatal>>
    /\ UNCHANGED_run
    /\ UNCHANGED_collect
    /\ UNCHANGED_report
    /\ UNCHANGED <<raw_data, delivered, warnings>>

\* main: "Logout from instance", then main returns
Logout ==
    /\ mpc = "logout"
    /\ \E rc \in ExitStatus :
          /\ Issue("logout", rc)
          /\ IF run_command(rc, <<>>).exited THEN Raise("SystemExit", "command")
             ELSE mpc' = "exit" /\ exitCode' = 0 /\ UNCHANGED fatal
    /\ UNCHANGED_run
    /\ UNCHANGED_collect
    /\ UNCHANGED_report
    /\ UNCHANGED <<raw_data, delivered, warnings>>

\* multi5 after a fatal error: logout is attempted, its failure only logged,
\* and the process exits non-zero
FatalLogout ==
    /\ mpc = "fatal"
    /\ \E rc \in ExitStatus : Issue("logout", rc)
    /\ mpc' = "exit"
    /\ exitCode' = 1
    /\ UNCHANGED fatal
    /\ UNCHANGED_run
    /\ UNCHANGED_collect
    /\ UNCHANGED_report
    /\ UNCHANGED <<raw_data, delivered, warnings>>

----------------------------------------------------------------------------
\* iolimit6 (src/6_iolimit_v36.py): one array, named by --array-serial

\* str.strip() on a text: leading and trailing blank lines are dropped
RECURSIVE LStrip(_)
LStrip(text) == IF text # <<>> /\ Head(text) = <<>> THEN LStrip(Tail(text)) ELSE text

RECURSIVE RStrip(_)
RStrip(text) ==
    IF text # <<>> /\ text[Len(text)] = <<>> THEN RStrip(SubSeq(text, 1, Len(text) - 1))
    ELSE text

strip(text) == RStrip(LStrip(text))

\* "if len(parts) >= 4:  # Minimalna liczba kolumn"
MinColumns == 4

\* parts[i] if len(parts) > i else ""            (i counted from 0)
PartOrEmpty(parts, i) == IF Len(parts) > i THEN parts[i + 1] ELSE ""

\* int(parts[i]) if len(parts) > i and parts[i].isdigit() else 0
PartIntOrZero(parts, i) ==
    IF Len(parts) > i /\ isdigit(parts[i + 1]) THEN int(parts[i + 1]) ELSE 0

\* the readings get_timestamp("epoch") may return in successive calls
ClockReadings == {1762400000, 1762400001}
Clocks(n) == {c \in [1..n -> ClockReadings] : \A i \in 1..(n - 1) : c[i] <= c[i + 1]}

\* mutant: the minimal number of columns is not required
row_data_accepted_Any(parts) == TRUE

\* parse_spm_data: is a record made of this line
row_data_accepted(parts) == Len(parts) >= MinColumns

row_data(parts, array_serial, t1, t2) ==
    [ArraySerial          |-> array_serial,
     ArrayPort            |-> PartOrEmpty(parts, 0),
     HostNickName         |-> PartOrEmpty(parts, 1),
     HostGroup            |-> PartOrEmpty(parts, 2),
     HostWWPN             |-> PartOrEmpty(parts, 3),
     MonitorIOps          |-> PartIntOrZero(parts, 4),
     MonitorKBps          |-> PartIntOrZero(parts, 5),
     SPMLimitKBps         |-> PartIntOrZero(parts, 6),
     SPMPriority          |-> PartIntOrZero(parts, 7),
     SourceLoadTimeEpoch  |-> t1,
     SourceName           |-> "HostIOLimit",
     HostIOLimit          |-> "",
     BatchCreateTimeEpoch |-> t2]

\* "for line in lines[1:]": blank lines and short lines are passed over; the
\* k-th record made takes the clock readings 2k-1 and 2k
RECURSIVE ParseLines(_, _, _, _)
ParseLines(lines, array_serial, clock, parsed_data) ==
    IF lines = <<>> THEN parsed_data
    ELSE IF Head(lines) # <<>> /\ row_data_accepted(Head(lines))
         THEN ParseLines(Tail(lines), array_serial, clock,
                         Append(parsed_data,
                                row_data(Head(lines), array_serial,
                                         clock[2 * Len(parsed_data) + 1],
                                         clock[2 * Len(parsed_data) + 2])))
         ELSE ParseLines(Tail(lines), array_serial, clock, parsed_data)

parse_spm_data(raw, array_serial, clock) ==
    IF strip(raw) = <<>> THEN <<>>
    ELSE ParseLines(Tail(strip(raw)), array_serial, clock, <<>>)

\* calculate_spm_limit_pct, for one row, in hundredths of a percent
spm_limit_pct(monitor_kbps, spm_limit_kbps) ==
    IF spm_limit_kbps > 0 /\ monitor_kbps > 0
    THEN RoundDiv(monitor_kbps * 10000, spm_limit_kbps)
    ELSE 0

calculate_spm_limit_pct(data) ==
    [i \in 1..Len(data) |->
        [f \in DOMAIN data[i] \cup {"SPMLimitPct"} |->
            IF f = "SPMLimitPct"
            THEN spm_limit_pct(data[i].MonitorKBps, data[i].SPMLimitKBps)
            ELSE data[i][f]]]

\* save_to_csv: nothing is written for an empty list, and a warning logged
save_to_csv(data) ==
    IF data = <<>> THEN [written |-> <<>>, warned |-> TRUE]
    ELSE [written |-> <<"csv">>, warned |-> FALSE]

\* save_meta_json
save_meta_json(data) == <<"meta">>

PortHeader6 == <<"PORT", "NICK", "GROUP", "WWN", "IOps", "KBps", "LIMIT", "PRI">>
Iolimit6Outputs ==
    { <<>>,
      << PortHeader6 >>,
      << PortHeader6, <<"CL1-A", "hostA", "grp1">> >>,
      << PortHeader6, <<"CL1-A", "hostA", "grp1", "50060e8005fa0f36">> >>,
      << PortHeader6, <<"CL1-A", "hostA", "grp1", "50060e8005fa0f36", "500", "1000">> >>,
      << PortHeader6, <<"CL1-A", "hostA", "grp1", "50060e8005fa0f36", "500", "1000", "2000", "3">> >>,
      << PortHeader6, <<"CL1-A", "hostA", "grp1", "50060e8005fa0f36", "-", "1k", "x", "NP">> >>,
      << <<>>, PortHeader6, <<>>, <<"CL1-A", "hostA">>,
         <<"CL2-B", "hostB", "grp2", "50060e8005fa0f37", "7", "2", "3", "1">>, <<>> >>,
      << PortHeader6, <<"CL1-A", "hostA", "grp1", "50060e8005fa0f36", "1", "1", "32">>,
                      <<"CL2-B", "hostB", "grp2", "50060e8005fa0f37", "9", "0", "0", "0">> >> }

\* process_spm_data: the port command returns; its output is parsed, the
\* percentages are calculated and, for a non-empty list, the two files are
\* written
GetPort6 ==
    /\ mpc = "discover"
    /\ script = "iolimit6"
    /\ \E rc \in ExitStatus, port_output \in Iolimit6Outputs, array_serial \in Serials :
          /\ Issue("port", rc)
          /\ IF run_command(rc, port_output).exited
             THEN /\ Raise("SystemExit", "command")
                  /\ UNCHANGED <<serial_numbers, raw_data, all_spm_data, files,
                                 sendIdx, sendStep, warnings>>
             ELSE \E clock \in Clocks(2 * Len(port_output)) :
                    LET spm_data == calculate_spm_limit_pct(
                                        parse_spm_data(run_command(rc, port_output).stdout,
                                                       array_serial, clock))
                    IN  /\ serial_numbers' = <<array_serial>>
                        /\ raw_data' = run_command(rc, port_output).stdout
                        /\ all_spm_data' = spm_data
                        /\ IF spm_data # <<>>
                           THEN /\ files' = save_to_csv(spm_data).written
                                                \o save_meta_json(spm_data)
                                /\ Warn("no_spm_data", save_to_csv(spm_data).warned)
                                /\ sendIdx' = 1
                                /\ sendStep' = "mkdir"
                                /\ mpc' = "send6"
                           ELSE /\ UNCHANGED <<files, sendIdx, sendStep, warnings>>
                                /\ mpc' = "logout"
                        /\ UNCHANGED <<fatal, exitCode>>
    /\ UNCHANGED <<script, threadsArg, loginRc, serial_chunks, chunkIdx, threads, joinIdx,
                   w, m, data_lock, unique_data, copied, delivered>>

\* send_scp_file returns: the value is dropped by process_spm_data, which
\* sends the next file, or logs out after the last one
Returned6(value) ==
    /\ delivered' = Append(delivered, value)
    /\ IF sendIdx < Len(files)
       THEN sendIdx' = sendIdx + 1 /\ sendStep' = "mkdir" /\ mpc' = mpc
       ELSE sendIdx' = 0 /\ sendStep' = "none" /\ mpc' = "logout"
    /\ UNCHANGED <<fatal, exitCode>>

\* send_scp_file: run_command(remote_mkdir_command)
Send6Mkdir ==
    /\ mpc = "send6"
    /\ sendStep = "mkdir"
    /\ \E rc \in ExitStatus :
          /\ Issue("mkdir", rc)
          /\ IF run_command(rc, <<>>).exited
             THEN Raise("SystemExit", "command") /\ UNCHANGED <<sendIdx, sendStep>>
             ELSE sendStep' = "scp" /\ UNCHANGED <<mpc, fatal, exitCode, sendIdx>>
    /\ UNCHANGED <<unique_data, files, copied, raw_data, delivered, warnings>>
    /\ UNCHANGED_run
    /\ UNCHANGED_collect

\* send_scp_file: run_command(scp_command)
Send6Scp ==
    /\ mpc = "send6"
    /\ sendStep = "scp"
    /\ \E rc \in ExitStatus :
          /\ Issue("scp", rc)
          /\ IF run_command(rc, <<>>).exited
             THEN Raise("SystemExit", "command") /\ UNCHANGED <<sendIdx, sendStep, copied>>
             ELSE /\ sendStep' = "ls"
                  /\ copied' = copied \cup {files[sendIdx]}
                  /\ UNCHANGED <<mpc, fatal, exitCode, sendIdx>>
    /\ UNCHANGED <<unique_data, files, raw_data, delivered, warnings>>
    /\ UNCHANGED_run
    /\ UNCHANGED_collect

\* send_scp_file: run_command(remote_check_command), then True when the
\* listing names the file and False when it does not
Send6Ls ==
    /\ mpc = "send6"
    /\ sendStep = "ls"
    /\ \E rc \in ExitStatus, listed \in BOOLEAN :
          /\ Issue("ls", rc)
          /\ IF run_command(rc, <<>>).exited
             THEN Raise("SystemExit", "command") /\ UNCHANGED <<sendIdx, sendStep, delivered>>
             ELSE Returned6(listed)
    /\ UNCHANGED <<unique_data, files, copied, raw_data, warnings>>
    /\ UNCHANGED_run
    /\ UNCHANGED_collect

----------------------------------------------------------------------------
Next ==
    \/ ParseArgs
    \/ Login
    \/ Discover
    \/ MakeChunks
    \/ CallChunk6
    \/ StartThread
    \/ JoinThread
    \/ \E sn \in Serials : W_ReturnPort(sn)
    \/ \E sn \in Serials : W_ReturnHost(sn)
    \/ \E sn \in Serials : W_ReturnSpm(sn)
    \/ \E sn \in Serials : W_Acquire(sn)
    \/ \E sn \in Serials : W_Extend(sn)
    \/ \E sn \in Serials : W_Release(sn)
    \/ Discover4
    \/ Collect4Port
    \/ Collect4Host
    \/ Collect4Spm
    \/ Dedupe
    \/ WriteReport
    \/ SendMkdir
    \/ SendScp
    \/ SendLs
    \/ GetPort6
    \/ Send6Mkdir
    \/ Send6Scp
    \/ Send6Ls
    \/ Logout
    \/ FatalLogout

Spec == Init /\ [][Next]_vars

----------------------------------------------------------------------------
\* The deduplication of main applied to arbitrary record sequences

Rec(nick, port, wwpn, kbps, serial) ==
    [ArraySerial |-> serial, ArrayPort |-> port, HostNickname |-> nick,
     HostGroup |-> "", HostWWPN |-> formatted_wwpn(wwpn), MonitorIOps |-> 0,
     MonitorKBps |-> kbps, SPMLimitKBps |-> 1000, SPMPriority |-> "",
     SourceLoadTimeEpoch |-> TIME_EPOCH, SourceName |-> "HostIOLimit",
     BatchCreateTimeEpoch |-> TIME_EPOCH]

\* a record, and records that differ from it in one field each
RecordPool ==
    { Rec("Unknown", "CL1-A-A", "50060e8005fa0f36", 500, "50001"),
      Rec("Unknown", "CL1-A-A", "50060e8005fa0f36", 900, "50001"),
      Rec("Unknown", "CL1-A-A", "50060e8005fa0f36", 500, "50002"),
      Rec("hostA",   "CL1-A-A", "50060e8005fa0f36", 500, "50001"),
      Rec("Unknown", "CL2-B-B", "50060e8005fa0f36", 500, "50001"),
      Rec("Unknown", "CL1-A-A", MagicWwpn,          500, "50001") }

SeqsUpTo(S, n) == UNION {[1..k -> S] : k \in 0..n}

InitDedupe ==
    /\ script = "dedupe"
    /\ threadsArg = chunk_size
    /\ mpc = "input"
    /\ exitCode = -1
    /\ fatal = "none"
    /\ issued = {}
    /\ loginRc = -1
    /\ anyFailed = FALSE
    /\ serial_numbers = <<>>
    /\ serial_chunks = <<>>
    /\ chunkIdx = 0
    /\ threads = <<>>
    /\ joinIdx = 0
    /\ w = [s \in Serials |-> IdleFrame]
    /\ m = IdleFrame
    /\ data_lock = "free"
    /\ all_spm_data \in SeqsUpTo(RecordPool, MaxLen)
    /\ unique_data = <<>>
    /\ files = <<>>
    /\ sendIdx = 0
    /\ sendStep = "none"
    /\ copied = {}
    /\ raw_data = <<>>
    /\ delivered = <<>>
    /\ warnings = {}

\* unique_data = dedupe(all_spm_data)
DedupeOnce ==
    /\ mpc = "input"
    /\ unique_data' = dedupe(all_spm_data)
    /\ mpc' = "once"
    /\ UNCHANGED <<script, threadsArg, exitCode, fatal, issued, loginRc, anyFailed,
                   files, sendIdx, sendStep, copied>>
    /\ UNCHANGED_collect
    /\ UNCHANGED <<raw_data, delivered, warnings>>

\* the result is deduplicated again: all_spm_data keeps the first result,
\* unique_data takes the second
DedupeAgain ==
    /\ mpc = "once"
    /\ all_spm_data' = unique_data
    /\ unique_data' = dedupe(unique_data)
    /\ mpc' = "twice"
    /\ UNCHANGED <<script, threadsArg, exitCode, fatal, issued, loginRc, anyFailed,
                   files, sendIdx, sendStep, copied>>
    /\ UNCHANGED <<serial_numbers, serial_chunks, chunkIdx, threads, joinIdx, w, m, data_lock>>
    /\ UNCHANGED <<raw_data, delivered, warnings>>

NextDedupe == DedupeOnce \/ DedupeAgain

SpecDedupe == InitDedupe /\ [][NextDedupe]_vars

----------------------------------------------------------------------------
\* The pure functions applied to arbitrary inputs

InitPure(tag, sns, recs, raw) ==
    /\ script = tag
    /\ threadsArg = chunk_size
    /\ mpc = "input"
    /\ exitCode = -1
    /\ fatal = "none"
    /\ issued = {}
    /\ loginRc = -1
    /\ anyFailed = FALSE
    /\ serial_numbers = sns
    /\ serial_chunks = <<>>
    /\ chunkIdx = 0
    /\ threads = <<>>
    /\ joinIdx = 0
    /\ w = [s \in Serials |-> IdleFrame]
    /\ m = IdleFrame
    /\ data_lock = "free"
    /\ all_spm_data = recs
    /\ unique_data = <<>>
    /\ files = <<>>
    /\ sendIdx = 0
    /\ sendStep = "none"
    /\ copied = {}
    /\ raw_data = raw
    /\ delivered = <<>>
    /\ warnings = {}

UNCHANGED_pure ==
    UNCHANGED <<script, threadsArg, exitCode, fatal, issued, loginRc, anyFailed, chunkIdx,
                threads, joinIdx, w, m, data_lock, files, sendIdx, sendStep, copied,
                delivered, warnings>>

\* serial_chunks = list(chunk_list(serial_numbers, chunk_size)) for any list
InitChunk == \E lst \in SeqsUpTo(Serials, MaxList) : InitPure("chunk_list", lst, <<>>, <<>>)

ChunkList ==
    /\ mpc = "input"
    /\ serial_chunks' = chunk_list(serial_numbers, chunk_size)
    /\ mpc' = "chunked"
    /\ UNCHANGED <<serial_numbers, all_spm_data, unique_data, raw_data>>
    /\ UNCHANGED_pure

SpecChunk == InitChunk /\ [][ChunkList]_vars

\* the percentage of one record, by calculate_percentage (multi5) and by
\* calculate_spm_limit_pct (iolimit6)
KBpsValues == {0, 1, 2, 3, 7, 32, 500, 1000}

InitPct ==
    \E kbps \in KBpsValues, limit \in KBpsValues, tag \in {"multi5", "iolimit6"} :
        InitPure(tag, <<>>,
                 IF tag = "multi5"
                 THEN << [Rec("Unknown", "CL1-A-A", "50060e8005fa0f36", kbps, "50001")
                             EXCEPT !.SPMLimitKBps = limit] >>
                 ELSE << [row_data(<<"CL1-A", "hostA", "grp1", "50060e8005fa0f36">>,
                                   "50001", 1762400000, 1762400000)
                             EXCEPT !.MonitorKBps = kbps, !.SPMLimitKBps = limit] >>,
                 <<>>)

AnnotatePct ==
    /\ mpc = "input"
    /\ unique_data' = IF script = "iolimit6" THEN calculate_spm_limit_pct(all_spm_data)
                      ELSE annotate(all_spm_data)
    /\ mpc' = "annotated"
    /\ UNCHANGED <<serial_numbers, serial_chunks, all_spm_data, raw_data>>
    /\ UNCHANGED_pure

SpecPct == InitPct /\ [][AnnotatePct]_vars

\* get_serial_numbers on any one-line enumeration output
SerialTokens == {"50001", "50002", "5000", "512345", "Serial#"}

InitSerials ==
    \E line \in SeqsUpTo(SerialTokens, MaxTokens) :
        InitPure("get_serial_numbers", <<>>, <<>>, <<line>>)

GetSerials ==
    /\ mpc = "input"
    /\ serial_numbers' = get_serial_numbers(raw_data)
    /\ mpc' = "returned"
    /\ UNCHANGED <<serial_chunks, all_spm_data, unique_data, raw_data>>
    /\ UNCHANGED_pure

SpecSerials == InitSerials /\ [][GetSerials]_vars

----------------------------------------------------------------------------
\* The credential encoding of 4_encode_credential.py and 5_io_v36_multi.py.
\* A string is the sequence of its character codes; ASCII text and its
\* encoded bytes have the same codes.

MaxText == 3            \* longest free part of a text given to simple_encrypt

\* "default_key"
default_key == <<100, 101, 102, 97, 117, 108, 116, 95, 107, 101, 121>>
Colon == 58
Pad == 61               \* "="

\* the base64 alphabet: A-Z a-z 0-9 + /
B64Char(i) ==
    IF i < 26 THEN 65 + i
    ELSE IF i < 52 THEN 97 + (i - 26)
    ELSE IF i < 62 THEN 48 + (i - 52)
    ELSE IF i = 62 THEN 43 ELSE 47

\* the value of a character of the alphabet, 64 for any other character
B64Value(c) ==
    IF c >= 65 /\ c <= 90 THEN c - 65
    ELSE IF c >= 97 /\ c <= 122 THEN c - 97 + 26
    ELSE IF c >= 48 /\ c <= 57 THEN c - 48 + 52
    ELSE IF c = 43 THEN 62
    ELSE IF c = 47 THEN 63 ELSE 64

\* base64.b64encode: three bytes give four characters, a last group of two
\* bytes three characters and one pad, of one byte two characters and two
\* pads.  ByteAt is the byte at an index, 0 past the end.
ByteAt(bytes, i) == IF i <= Len(bytes) THEN bytes[i] ELSE 0

b64encode(bytes) ==
    [k \in 1..(4 * ((Len(bytes) + 2) \div 3)) |->
        LET g == 3 * ((k - 1) \div 4)         \* bytes before this group
            b1 == ByteAt(bytes, g + 1)
            b2 == ByteAt(bytes, g + 2)
            b3 == ByteAt(bytes, g + 3)
            pos == (k - 1) % 4
        IN  IF pos = 0 THEN B64Char(b1 \div 4)
            ELSE IF pos = 1 THEN B64Char((b1 % 4) * 16 + b2 \div 16)
            ELSE IF pos = 2
            THEN IF g + 2 > Len(bytes) THEN Pad
                 ELSE B64Char((b2 % 16) * 4 + b3 \div 64)
            ELSE IF g + 3 > Len(bytes) THEN Pad ELSE B64Char(b3 % 64)]

\* base64.b64decode (binascii.a2b_base64, not strict).  Characters outside
\* the alphabet are passed over; quad_pos is the number of alphabet
\* characters read so far modulo 4 and pads the number of pads read since
\* the last alphabet character; the scan stops at a pad read with
\* quad_pos >= 2 and quad_pos + pads >= 4; when the characters end with
\* quad_pos # 0 binascii.Error is raised.
IsB64(c) == B64Value(c) < 64
quad_pos(chars, j) == Cardinality({i \in 1..j : IsB64(chars[i])}) % 4
pads(chars, j) ==
    Cardinality({i \in 1..j : /\ chars[i] = Pad
                              /\ \A l \in (i + 1)..j : ~IsB64(chars[l])})
StopsAt(chars, j) ==
    /\ chars[j] = Pad
    /\ quad_pos(chars, j) >= 2
    /\ quad_pos(chars, j) + pads(chars, j) >= 4

b64decode(chars) ==
    LET stops == {j \in 1..Len(chars) : StopsAt(chars, j)}
        end == IF stops = {} THEN Len(chars)
               ELSE (CHOOSE j \in stops : \A l \in stops : j <= l) - 1
        data == SelectSeq(SubSeq(chars, 1, end), IsB64)
        n == Len(data)
        nbytes == 3 * (n \div 4) + (IF n % 4 >= 2 THEN (n % 4) - 1 ELSE 0)
    IN  [raised |-> stops = {} /\ n % 4 # 0,
         bytes |-> [k \in 1..nbytes |->
            LET g == 4 * ((k - 1) \div 3)
                v1 == B64Value(data[g + 1])
                v2 == B64Value(data[g + 2])
                pos == (k - 1) % 3
            IN  IF pos = 0 THEN v1 * 4 + v2 \div 16
                ELSE IF pos = 1
                THEN (v2 % 16) * 16 + B64Value(data[g + 3]) \div 4
                ELSE (B64Value(data[g + 3]) % 4) * 64 + B64Value(data[g + 4])]]

\* bytes.decode(): ASCII bytes are their characters; a byte above 127 that
\* is not part of a well-formed sequence raises UnicodeDecodeError (no
\* multi-byte sequence is decoded here)
decode_raises(bytes) == \E i \in 1..Len(bytes) : bytes[i] > 127

startswith(text, prefix) ==
    Len(text) >= Len(prefix) /\ SubSeq(text, 1, Len(prefix)) = prefix

\* combined = f"{key}:{text}"; base64.b64encode(combined.encode()).decode()
simple_encrypt(text, key) == b64encode(key \o <<Colon>> \o text)

RECURSIVE StripAll(_, _)
StripAll(text, prefix) ==
    IF startswith(text, prefix)
    THEN StripAll(SubSeq(text, Len(prefix) + 1, Len(text)), prefix)
    ELSE text

simple_decrypt_StripAll(encoded_text, key) ==
    LET r == b64decode(encoded_text)
    IN  IF r.raised \/ decode_raises(r.bytes) THEN encoded_text
        ELSE StripAll(r.bytes, key \o <<Colon>>)

\* decoded[len(f"{key}:"):] when decoded starts with f"{key}:", decoded when
\* it does not, encoded_text when decoding raises
simple_decrypt(encoded_text, key) ==
    LET r == b64decode(encoded_text)
        decoded == r.bytes
    IN  IF r.raised \/ decode_raises(decoded) THEN encoded_text
        ELSE IF startswith(decoded, key \o <<Colon>>)
        THEN SubSeq(decoded, Len(key) + 2, Len(decoded))
        ELSE decoded

\* printable ASCII characters: space, ":", "=", "A", "d", "~"
TextChars == {32, 58, 61, 65, 100, 126}

\* the texts given to simple_encrypt: a short free text, also after one or
\* two copies of f"{key}:"
KeyPrefixes == { <<>>, default_key \o <<Colon>>,
                 default_key \o <<Colon>> \o default_key \o <<Colon>> }

InitCrypt ==
    \E p \in KeyPrefixes, s \in SeqsUpTo(TextChars, MaxText) :
        InitPure("encode_credential", <<>>, <<>>, p \o s)

\* encoded_user = simple_encrypt(username): raw_data is the text,
\* serial_numbers takes the encoded string
Encrypt ==
    /\ mpc = "input"
    /\ serial_numbers' = simple_encrypt(raw_data, default_key)
    /\ mpc' = "encrypted"
    /\ UNCHANGED <<serial_chunks, all_spm_data, unique_data, raw_data>>
    /\ UNCHANGED_pure

\* simple_decrypt(encoded_user): unique_data takes the decoded text
Decrypt ==
    /\ mpc = "encrypted"
    /\ unique_data' = simple_decrypt(serial_numbers, default_key)
    /\ mpc' = "decrypted"
    /\ UNCHANGED <<serial_numbers, serial_chunks, all_spm_data, raw_data>>
    /\ UNCHANGED_pure

NextCrypt == Encrypt \/ Decrypt

SpecCrypt == InitCrypt /\ [][NextCrypt]_vars

----------------------------------------------------------------------------
\* The clock.  An instant is the number of seconds since midnight of the
\* day of the run; datetime.datetime.now() reads it.

ClockHours == {0, 23}
ClockMinutes == 0..59
ClockSeconds == {0, 30, 59}
Instants == {h * 3600 + mi * 60 + s : h \in ClockHours, mi \in ClockMinutes,
                                      s \in ClockSeconds}

hour(now) == now \div 3600
minute(now) == (now \div 60) % 60

\* get_timestamp("5min") of 6_iolimit_v36.py:
\*   minutes = now.minute - (now.minute % 5)
\*   now.replace(minute=minutes, second=0, microsecond=0).strftime("%Y%m%d%H%M")
\* A formatted time is the record of the fields its format prints.
get_timestamp_5min_iolimit6(now) ==
    LET minutes == minute(now) - (minute(now) % 5)
    IN  [format |-> "%Y%m%d%H%M", H |-> hour(now), M |-> minutes]

\* get_timestamp("5min") of 4_limit.py, 5_io_v36_multi.py and 6_io_multi_.py:
\*   datetime.datetime.now().strftime("%Y-%m-%d %H:%M")
get_timestamp_5min_strftime(now) ==
    [format |-> "%Y-%m-%d %H:%M", H |-> hour(now), M |-> minute(now)]

get_timestamp_5min(now) ==
    IF script = "iolimit6" THEN get_timestamp_5min_iolimit6(now)
    ELSE get_timestamp_5min_strftime(now)

\* the instant a formatted time names
InstantOf(stamp) == stamp.H * 3600 + stamp.M * 60

InitClock ==
    \E tag \in Scripts, now \in Instants : InitPure(tag, <<>>, <<>>, now)

\* TIME_5MIN = get_timestamp("5min"): raw_data is the instant the clock
\* shows, unique_data takes the value returned
GetTimestamp5min ==
    /\ mpc = "input"
    /\ unique_data' = get_timestamp_5min(raw_data)
    /\ mpc' = "returned"
    /\ UNCHANGED <<serial_numbers, serial_chunks, all_spm_data, raw_data>>
    /\ UNCHANGED_pure

SpecClock == InitClock /\ [][GetTimestamp5min]_vars

----------------------------------------------------------------------------
\* The workers of one group, each with the records it has built, append to
\* the shared list under the lock; main joins them and removes duplicates.

MaxLocal == 2           \* most records a worker of the group has built

GroupSerials == <<"50001", "50002">>

WwpnOf(sn) == IF sn = "50001" THEN "50060e8005fa0f36" ELSE "50060e8005fa0f37"

\* records a worker may have built for its array: two with the same key that
\* no other array has, and one with a key every array has
LocalPool(sn) ==
    { Rec("Unknown", "CL1-A-A", WwpnOf(sn), 500, sn),
      Rec("Unknown", "CL1-A-A", WwpnOf(sn), 900, sn),
      Rec("hostA",   "CL1-A-A", "50060e8005fa0f36", 500, sn) }

InitGroup ==
    \E la \in SeqsUpTo(LocalPool(GroupSerials[1]), MaxLocal),
       lb \in SeqsUpTo(LocalPool(GroupSerials[2]), MaxLocal) :
        /\ script = "multi5"
        /\ threadsArg = chunk_size
        /\ mpc = "join"
        /\ exitCode = -1
        /\ fatal = "none"
        /\ issued = {"login", "raidqry", "port", "host", "spm"}
        /\ loginRc = 0
        /\ anyFailed = FALSE
        /\ serial_numbers = GroupSerials
        /\ serial_chunks = chunk_list(GroupSerials, chunk_size)
        /\ chunkIdx = 1
        /\ threads = GroupSerials
        /\ joinIdx = 1
        /\ w = [s \in Serials |->
                   IF s = GroupSerials[1]
                   THEN [IdleFrame EXCEPT !.pc = "collected", !.local_spm_data = la]
                   ELSE IF s = GroupSerials[2]
                   THEN [IdleFrame EXCEPT !.pc = "collected", !.local_spm_data = lb]
                   ELSE IdleFrame]
        /\ m = IdleFrame
        /\ data_lock = "free"
        /\ all_spm_data = <<>>
        /\ unique_data = <<>>
        /\ files = <<>>
        /\ sendIdx = 0
        /\ sendStep = "none"
        /\ copied = {}
        /\ raw_data = <<>>
        /\ delivered = <<>>
        /\ warnings = {}

NextGroup ==
    \/ \E sn \in Serials : W_Acquire(sn)
    \/ \E sn \in Serials : W_Extend(sn)
    \/ \E sn \in Serials : W_Release(sn)
    \/ JoinThread
    \/ Dedupe

SpecGroup == InitGroup /\ [][NextGroup]_vars

----------------------------------------------------------------------------
\* A run in which every command invocation returns and every thread that can
\* take a step is scheduled: no step of the program stays possible for ever
\* without being taken. No step of the program reads args.threads (the group
\* size is chunk_size), so the runs are those of one value of it.
InitLive == Init /\ threadsArg = chunk_size

SpecLive == InitLive /\ [][Next]_vars /\ WF_vars(Next)

----------------------------------------------------------------------------
\* The names of one report bundle (6_iolimit_v36.py, process_spm_data):
\* get_file_path, the data file name and the metadata file name each read the
\* clock through get_timestamp("5min"); the clock may advance between the
\* calls. raw_data is the instant the clock shows, files the names made so far.

\* the instants of the first quarter of an hour
BundleInstants == {now \in Instants : hour(now) = 0 /\ minute(now) < 15}

UNCHANGED_bundle ==
    UNCHANGED <<script, threadsArg, exitCode, fatal, issued, loginRc, anyFailed,
                serial_numbers, serial_chunks, chunkIdx, threads, joinIdx, w, m,
                data_lock, all_spm_data, unique_data, sendIdx, sendStep, copied,
                delivered, warnings>>

InitBundle == \E now \in BundleInstants : InitPure("iolimit6", <<"50001">>, <<>>, now)

\* time passes between two statements of process_spm_data
ClockAdvances ==
    /\ mpc \in {"input", "csv_name", "meta_name"}
    /\ \E later \in BundleInstants : later > raw_data /\ raw_data' = later
    /\ UNCHANGED <<mpc, files>>
    /\ UNCHANGED_bundle

\* out_dir = os.path.join(report_dir, f"DIR_TIME_{get_timestamp('5min')}")
get_file_path(array_serial, now) ==
    [prefix |-> "DIR_TIME_", stamp |-> get_timestamp_5min_iolimit6(now),
     array_dir |-> array_serial]

\* file_path = get_file_path(array_serial)
GetFilePath ==
    /\ mpc = "input"
    /\ files' = <<get_file_path(serial_numbers[1], raw_data)>>
    /\ mpc' = "csv_name"
    /\ UNCHANGED raw_data
    /\ UNCHANGED_bundle

\* csv_filename = os.path.join(file_path, f"spm_{get_timestamp('5min')}.csv")
CsvFilename ==
    /\ mpc = "csv_name"
    /\ files' = Append(files, [prefix |-> "spm_",
                               stamp |-> get_timestamp_5min_iolimit6(raw_data),
                               file_path |-> files[1]])
    /\ mpc' = "meta_name"
    /\ UNCHANGED raw_data
    /\ UNCHANGED_bundle

\* meta_filename = os.path.join(file_path, f"meta_{get_timestamp('5min')}.json")
MetaFilename ==
    /\ mpc = "meta_name"
    /\ files' = Append(files, [prefix |-> "meta_",
                               stamp |-> get_timestamp_5min_iolimit6(raw_data),
                               file_path |-> files[1]])
    /\ mpc' = "named"
    /\ UNCHANGED raw_data
    /\ UNCHANGED_bundle

NextBundle == ClockAdvances \/ GetFilePath \/ CsvFilename \/ MetaFilename

SpecBundle == InitBundle /\ [][NextBundle]_vars

----------------------------------------------------------------------------
\* ScriptExecutor of 1_multi_csript.py: execute_batch starts one thread per
\* address, each thread runs execute_script. threadsArg is max_concurrent,
\* serial_numbers the ip_queue (an address is its position in ip_addresses),
\* copied the keys of active_processes, sendIdx completed_count, chunkIdx the
\* local active_count, joinIdx the iterations the for loop has left, and
\* unique_data[ip] the thread of ip: where it is in execute_script and
\* whether its process runs. The bodies of "with self.lock" do not block and
\* are one step each.

MaxIps == 3             \* most addresses given to execute_batch
Ips == 1..MaxIps

UNCHANGED_exec ==
    UNCHANGED <<script, threadsArg, exitCode, fatal, issued, loginRc, anyFailed,
                serial_chunks, threads, w, m, data_lock, all_spm_data, files,
                sendStep, raw_data, delivered, warnings>>

\* the script processes running at the same time
RunningScripts == {ip \in Ips : unique_data[ip].process = "running"}

\* __init__ and the first statements of execute_batch: the queue is filled
InitExec ==
    \E max_concurrent \in 1..MaxThreadsArg, n \in 1..MaxIps :
       /\ script = "executor"
       /\ threadsArg = max_concurrent
       /\ serial_numbers = [i \in 1..n |-> i]
       /\ copied = {}
       /\ sendIdx = 0
       /\ unique_data = [ip \in Ips |-> [pc |-> "none", process |-> "none"]]
       /\ mpc = "input"
       /\ chunkIdx = 0
       /\ joinIdx = 0
       /\ exitCode = -1
       /\ fatal = "none"
       /\ issued = {}
       /\ loginRc = -1
       /\ anyFailed = FALSE
       /\ serial_chunks = <<>>
       /\ threads = <<>>
       /\ w = [s \in Serials |-> IdleFrame]
       /\ m = IdleFrame
       /\ data_lock = "free"
       /\ all_spm_data = <<>>
       /\ files = <<>>
       /\ sendStep = "none"
       /\ raw_data = <<>>
       /\ delivered = <<>>
       /\ warnings = {}

\* "while not ip_queue.empty()": active_count = self.get_active_count(),
\* slots_available = self.max_concurrent - active_count, and the range of the
\* for loop; with the queue empty the loop is left
CheckSlots ==
    /\ mpc = "input"
    /\ IF serial_numbers = <<>>
       THEN mpc' = "wait" /\ UNCHANGED <<chunkIdx, joinIdx>>
       ELSE /\ chunkIdx' = Cardinality(copied)
            /\ IF threadsArg - Cardinality(copied) > 0
               THEN /\ joinIdx' = Min(threadsArg - Cardinality(copied), Len(serial_numbers))
                    /\ mpc' = "launch"
               ELSE joinIdx' = 0 /\ mpc' = "sleep"
    /\ UNCHANGED <<serial_numbers, unique_data, copied, sendIdx>>
    /\ UNCHANGED_exec

\* one iteration of the for loop: ip = ip_queue.get(), thread.start()
StartScriptThread ==
    /\ mpc = "launch"
    /\ joinIdx > 0
    /\ serial_numbers # <<>>
    /\ unique_data' = [unique_data EXCEPT ![Head(serial_numbers)].pc = "started"]
    /\ serial_numbers' = Tail(serial_numbers)
    /\ joinIdx' = joinIdx - 1
    /\ UNCHANGED <<mpc, chunkIdx, copied, sendIdx>>
    /\ UNCHANGED_exec

\* the for loop ends (range exhausted, or "if ip_queue.empty(): break")
EndLaunch ==
    /\ mpc = "launch"
    /\ joinIdx = 0 \/ serial_numbers = <<>>
    /\ mpc' = "sleep"
    /\ joinIdx' = 0
    /\ UNCHANGED <<serial_numbers, chunkIdx, unique_data, copied, sendIdx>>
    /\ UNCHANGED_exec

\* the progress line and time.sleep(5)
Sleep ==
    /\ mpc = "sleep"
    /\ mpc' = "input"
    /\ UNCHANGED <<serial_numbers, chunkIdx, joinIdx, unique_data, copied, sendIdx>>
    /\ UNCHANGED_exec

\* "while self.get_active_count() > 0: time.sleep(5)", then the return
WaitActive ==
    /\ mpc = "wait"
    /\ Cardinality(copied) = 0
    /\ mpc' = "returned"
    /\ UNCHANGED <<serial_numbers, chunkIdx, joinIdx, unique_data, copied, sendIdx>>
    /\ UNCHANGED_exec

\* execute_script: process = subprocess.Popen(cmd, ...); an exception of
\* Popen is logged and the thread ends
Popen(ip) ==
    /\ unique_data[ip].pc = "started"
    /\ \E raised \in BOOLEAN :
          unique_data' = [unique_data EXCEPT ![ip] =
                             IF raised THEN [pc |-> "ended", process |-> "none"]
                             ELSE [pc |-> "popened", process |-> "running"]]
    /\ UNCHANGED <<mpc, serial_numbers, chunkIdx, joinIdx, copied, sendIdx>>
    /\ UNCHANGED_exec

\* "with self.lock: self.active_processes[process_id] = {...}"
Register(ip) ==
    /\ unique_data[ip].pc = "popened"
    /\ copied' = copied \cup {ip}
    /\ unique_data' = [unique_data EXCEPT ![ip].pc = "communicate"]
    /\ UNCHANGED <<mpc, serial_numbers, chunkIdx, joinIdx, sendIdx>>
    /\ UNCHANGED_exec

\* the script process ends, at any time after its start
ProcessExits(ip) ==
    /\ unique_data[ip].process = "running"
    /\ unique_data' = [unique_data EXCEPT ![ip].process = "exited"]
    /\ UNCHANGED <<mpc, serial_numbers, chunkIdx, joinIdx, copied, sendIdx>>
    /\ UNCHANGED_exec

\* process.communicate() returns once the process has ended; then
\* "with self.lock: del self.active_processes[process_id];
\*  self.completed_count += 1"
Unregister(ip) ==
    /\ unique_data[ip].pc = "communicate"
    /\ unique_data[ip].process = "exited"
    /\ copied' = copied \ {ip}
    /\ sendIdx' = sendIdx + 1
    /\ unique_data' = [unique_data EXCEPT ![ip].pc = "ended"]
    /\ UNCHANGED <<mpc, serial_numbers, chunkIdx, joinIdx>>
    /\ UNCHANGED_exec

NextExec ==
    \/ CheckSlots
    \/ StartScriptThread
    \/ EndLaunch
    \/ Sleep
    \/ WaitActive
    \/ \E ip \in Ips : Popen(ip)
    \/ \E ip \in Ips : Register(ip)
    \/ \E ip \in Ips : ProcessExits(ip)
    \/ \E ip \in Ips : Unregister(ip)

SpecExec == InitExec /\ [][NextExec]_vars

----------------------------------------------------------------------------
\* Properties

Workers == {sn \in Serials : w[sn].pc \notin {"idle", "joined"}}
Running == {sn \in Workers : w[sn].pc \notin Terminated}

\* C1: when the command for one port or one WWPN exits non-zero only that
\* query's contribution is lost: the records the worker built from the
\* array's other ports are still appended to the shared collection, so a
\* worker that has ended after such a failure has all its records there.
C1_FailedQueryKeepsOtherRecords ==
    \A sn \in Serials :
        (w[sn].pc \in Terminated /\ w[sn].failed \in {"host", "spm"})
            => Range(w[sn].local_spm_data) \subseteq Range(all_spm_data)

\* C2: on every fatal path (login fails, discovery finds no array, an
\* exception or a failed command leaves the run body) a logout command has
\* been issued when the process exits.
C2_LogoutOnEveryFatalPath ==
    (script \in {"multi5", "multi6"} /\ mpc = "exit" /\ fatal # "none")
        => "logout" \in issued

\* C3: the process exits non-zero whenever login fails, discovery yields no
\* target or an exception is raised inside main.
C3_FatalExitsNonZero ==
    (mpc = "exit" /\ fatal \in {"login", "no_serials", "exception"}) => exitCode # 0

\* C4: a run in which every external command exits zero, no exception is
\* raised and at least one record is collected issues logout and exits 0.
C4_CleanRunExitsZero ==
    (mpc = "exit" /\ ~anyFailed /\ fatal # "exception" /\ all_spm_data # <<>>)
        => ("logout" \in issued /\ exitCode = 0)

\* C5: no discovery or collection command (raidqry, raidcom get port,
\* raidcom get spm_wwn) has been issued unless the login command was issued
\* before and exited zero.
C5_NoCollectionWithoutLogin ==
    (issued \cap {"raidqry", "port", "host", "spm"} # {}) => loginRc = 0

C5_Witness ==
    /\ script = "multi5"
    /\ {"login", "raidqry", "port", "host", "spm"} \subseteq issued
    /\ loginRc = 0

\* C6: the groups have the size of the thread count: no group is larger
\* than args.threads and every group but the last has exactly that size.
C6_GroupSizeIsThreadCount ==
    \A i \in 1..Len(serial_chunks) :
        /\ Len(serial_chunks[i]) <= threadsArg
        /\ i < Len(serial_chunks) => Len(serial_chunks[i]) = threadsArg

\* the index of the group a serial belongs to
ChunkOf(sn) == CHOOSE i \in 1..Len(serial_chunks) : sn \in Range(serial_chunks[i])

\* C7: groups run one after the other behind a barrier: a worker of a later
\* group has not started while a worker of an earlier group has not ended,
\* and at most chunk_size workers run at a time.
C7_GroupBarrier ==
    /\ \A a \in Workers, b \in Workers :
          ChunkOf(a) < ChunkOf(b) => a \notin Running
    /\ Cardinality(Running) <= chunk_size

C7_Witness ==
    /\ serial_numbers = <<"50001", "50002", "50003">>
    /\ w["50001"].pc = "joined"
    /\ w["50002"].pc = "joined"
    /\ w["50003"].pc = "spm_cmd"

\* C8: a worker modifies the shared list only while it holds the lock, at
\* most one worker is in the locked section, and a worker about to run an
\* external command does not hold the lock.
C8_LockState ==
    /\ \A sn \in Serials : w[sn].pc \in {"extend", "release"} => data_lock = sn
    /\ Cardinality({sn \in Serials : w[sn].pc \in {"extend", "release"}}) <= 1
    /\ \A sn \in Serials : w[sn].pc \in AtCommand => data_lock # sn

C8_LockDiscipline ==
    /\ []C8_LockState
    /\ [][(script = "multi5" /\ all_spm_data' # all_spm_data)
             => \E sn \in Serials : data_lock = sn /\ w[sn].pc = "extend"]_vars

C8_Witness ==
    \E a \in Serials, b \in Serials :
        /\ a # b
        /\ w[a].pc = "extend" /\ data_lock = a /\ w[a].local_spm_data # <<>>
        /\ w[b].pc = "collected" /\ w[b].local_spm_data # <<>>

\* the key the claims name
ClaimKey(r) == <<r.HostNickname, r.ArrayPort, r.HostWWPN>>

\* the indices of the first record of each key, in input order
FirstSeen(r) == {i \in 1..Len(r) : \A j \in 1..(i-1) : ClaimKey(r[j]) # ClaimKey(r[i])}

RECURSIVE Pick(_, _, _)
Pick(r, idx, i) ==
    IF i > Len(r) THEN <<>>
    ELSE (IF i \in idx THEN <<r[i]>> ELSE <<>>) \o Pick(r, idx, i + 1)

\* C9: deduplication is stable and first-seen-wins: the output is the
\* subsequence of the input made of the first record of each key, so no two
\* output records share a key and records differing only in MonitorKBps
\* collapse to the earlier one.
C9_DedupeFirstSeenWins ==
    mpc = "once" =>
        /\ unique_data = Pick(all_spm_data, FirstSeen(all_spm_data), 1)
        /\ \A i \in 1..Len(unique_data), j \in 1..Len(unique_data) :
              ClaimKey(unique_data[i]) = ClaimKey(unique_data[j]) => i = j

C9_Witness ==
    /\ mpc = "once"
    /\ Len(all_spm_data) = MaxLen
    /\ Len(unique_data) = 2
    /\ all_spm_data[1].MonitorKBps # all_spm_data[2].MonitorKBps
    /\ ClaimKey(all_spm_data[1]) = ClaimKey(all_spm_data[2])
    /\ unique_data[1] = all_spm_data[1]

\* C10: deduplication is idempotent: deduplicating the result of a
\* deduplication gives the same sequence.
C10_DedupeIdempotent ==
    mpc = "twice" => unique_data = all_spm_data

C10_Witness ==
    /\ mpc = "twice"
    /\ Len(unique_data) >= 2
    /\ unique_data = all_spm_data

\* C11: chunk_list(lst, 2) on a list of n elements yields ceil(n/2) groups,
\* each of 2 elements except the last, which has 1 when n is odd; the groups
\* concatenated in order give lst; the empty list yields no group.
C11_ChunkListPartition ==
    mpc = "chunked" =>
        LET n == Len(serial_numbers)
            k == Len(serial_chunks)
        IN  /\ k = (n + 1) \div 2
            /\ \A i \in 1..(k - 1) : Len(serial_chunks[i]) = 2
            /\ k > 0 => Len(serial_chunks[k]) = (IF n % 2 = 1 THEN 1 ELSE 2)
            /\ Flatten(serial_chunks) = serial_numbers
            /\ n = 0 => serial_chunks = <<>>

C11_Witness ==
    /\ mpc = "chunked"
    /\ Len(serial_numbers) = MaxList
    /\ Len(serial_chunks) = (MaxList + 1) \div 2
    /\ serial_chunks[1] = SubSeq(serial_numbers, 1, 2)

\* the percentage field of the annotated record, in hundredths of a percent
PctOf(rec) == IF "SPMLimitPct" \in DOMAIN rec THEN rec.SPMLimitPct ELSE rec.SPMLimitUtilPct

Abs(x) == IF x < 0 THEN 0 - x ELSE x

\* C12: the percentage is 0 when the limit is not positive or kbps is 0, and
\* otherwise kbps/limit*100 rounded to 2 decimals (the nearest hundredth; 500
\* of 1000 gives 50.0), for calculate_percentage and for
\* calculate_spm_limit_pct alike, and a value is returned for every input.
C12_PercentageRounded ==
    mpc = "annotated" =>
        LET kbps  == all_spm_data[1].MonitorKBps
            limit == all_spm_data[1].SPMLimitKBps
            pct   == PctOf(unique_data[1])
        IN  /\ Len(unique_data) = 1
            /\ (limit <= 0 \/ kbps = 0) => pct = 0
            /\ (limit > 0 /\ kbps > 0) => 2 * Abs(pct * limit - kbps * 10000) <= limit
            /\ (kbps = 500 /\ limit = 1000) => pct = 5000

C12_Witness ==
    /\ mpc = "annotated"
    /\ script = "iolimit6"
    /\ all_spm_data[1].MonitorKBps = 2
    /\ all_spm_data[1].SPMLimitKBps = 3
    /\ PctOf(unique_data[1]) = 6667

\* iolimit6: the port output has been parsed
Parsed6 == script = "iolimit6" /\ serial_numbers # <<>>

\* the non-blank lines after the first line of the stripped output
DataLines(raw) ==
    IF strip(raw) = <<>> THEN <<>>
    ELSE SelectSeq(Tail(strip(raw)), LAMBDA l : l # <<>>)

Column(l, i) == IF i <= Len(l) THEN l[i] ELSE ""

\* the record made of line l: the text fields are its first four columns and
\* every numeric field whose column is missing is 0
RecordOfLine(rec, l) ==
    /\ rec.ArrayPort = Column(l, 1)
    /\ rec.HostNickName = Column(l, 2)
    /\ rec.HostGroup = Column(l, 3)
    /\ rec.HostWWPN = Column(l, 4)
    /\ Len(l) < 5 => rec.MonitorIOps = 0
    /\ Len(l) < 6 => rec.MonitorKBps = 0
    /\ Len(l) < 7 => rec.SPMLimitKBps = 0
    /\ Len(l) < 8 => rec.SPMPriority = 0

C14_CoercionNeverRaises ==
    /\ (script = "limit4" /\ fatal = "exception" /\ "spm" \in issued)
          => findall(IsMagicWwpn, Flatten(m.host_output)) # <<>>
    /\ \A sn \in Serials :
          w[sn].failed = "exception"
              => findall(IsMagicWwpn, Flatten(w[sn].host_output)) # <<>>

DeliverySteps == {"mkdir", "scp", "ls"}

\* C15: send_scp_file issues mkdir, then scp, then ls, issues no later step
\* after an earlier one exited non-zero, and returns false to its caller
\* when one of the three commands exits non-zero.
C15_DeliverReturnsFalseOnFailure ==
    script = "iolimit6" =>
        /\ (mpc = "send6" /\ sendStep = "scp") => "mkdir" \in issued
        /\ (mpc = "send6" /\ sendStep = "ls") => files[sendIdx] \in copied
        /\ (fatal = "command" /\ sendStep \in DeliverySteps)
              => (Len(delivered) = sendIdx /\ delivered[sendIdx] = FALSE)

\* C16: when all commands exit zero, a delivered data file is followed by
\* the delivery of the metadata file: a run that ends having copied the data
\* file has copied the metadata file too.
C16_BothFilesCopied ==
    (script \in {"limit4", "iolimit6"} /\ mpc = "exit" /\ ~anyFailed /\ "csv" \in copied)
        => "meta" \in copied

\* the report stage found the record list empty
EmptyReport == mpc = "logout" /\ all_spm_data = <<>>

\* C17 as stated: with an empty record list no file is written, no delivery
\* command is issued and a warning is logged.
C17_EmptyListNoOpWithWarning ==
    EmptyReport =>
        /\ files = <<>>
        /\ issued \cap DeliverySteps = {}
        /\ "no_spm_data" \in warnings

\* C17 amended: with an empty record list no file is written and no delivery
\* command is issued; limit4 logs a warning, iolimit6 logs none.
C17_EmptyListNoFilesNoDelivery ==
    EmptyReport =>
        /\ files = <<>>
        /\ issued \cap DeliverySteps = {}
        /\ script = "limit4" => "no_spm_data" \in warnings
        /\ script = "iolimit6" => "no_spm_data" \notin warnings

C17_Witness ==
    /\ EmptyReport
    /\ script = "limit4"
    /\ "host" \in issued
    /\ "no_spm_data" \in warnings
    /\ files = <<>>

\* the tokens of the output that match the serial pattern
Matched(raw) == {Flatten(raw)[i] : i \in {j \in 1..Len(Flatten(raw)) : IsSerial5(Flatten(raw)[j])}}

FirstAt(seq, x) == CHOOSE i \in 1..Len(seq) : seq[i] = x /\ \A j \in 1..(i - 1) : seq[j] # x

\* C18: get_serial_numbers returns each matched token once, ordered by first
\* occurrence in the output, and no other token; it returns the empty
\* sequence when no token matches.
C18_SerialsFirstSeenOrder ==
    mpc = "returned" =>
        /\ Range(serial_numbers) = Matched(raw_data)
        /\ \A i \in 1..Len(serial_numbers), j \in 1..Len(serial_numbers) :
              /\ serial_numbers[i] = serial_numbers[j] => i = j
              /\ i < j => FirstAt(Flatten(raw_data), serial_numbers[i])
                              < FirstAt(Flatten(raw_data), serial_numbers[j])
        /\ Matched(raw_data) = {} => serial_numbers = <<>>

C18_Witness ==
    /\ mpc = "returned"
    /\ Flatten(raw_data) = <<"50002", "5000", "50001", "50002">>
    /\ serial_numbers = <<"50002", "50001">>

\* the worker of array a found no port and ended
NoPorts(a) == w[a].pc = "done" /\ w[a].port_ids = <<>> /\ w[a].failed = "none"

C20_SerialState ==
    /\ \A sn \in Serials : \A i \in 1..Len(w[sn].local_spm_data) :
          w[sn].local_spm_data[i].ArraySerial = sn
    /\ script \in {"multi5", "limit4"} =>
          \A i \in 1..Len(all_spm_data) : all_spm_data[i].ArraySerial \in Range(serial_numbers)
    /\ script = "limit4" => Len(serial_numbers) <= 1

\* C20: every record of a worker's local list and of the shared collection
\* has the ArraySerial of the worker that created it: local records carry
\* the worker's serial, and the records a worker appends carry its serial.
C20_RecordsCarryWorkerSerial ==
    /\ []C20_SerialState
    /\ [][\A sn \in Serials :
             (w[sn].pc = "extend" /\ w'[sn].pc = "release")
                 => \A i \in (Len(all_spm_data) + 1)..Len(all_spm_data') :
                        all_spm_data'[i].ArraySerial = sn]_vars

C20_Witness ==
    /\ script = "multi5"
    /\ Len(all_spm_data) >= 2
    /\ all_spm_data[1].ArraySerial # all_spm_data[Len(all_spm_data)].ArraySerial
    /\ \E sn \in Serials : w[sn].pc = "done" /\ w[sn].local_spm_data # <<>>

----------------------------------------------------------------------------
\* C21: all records produced in one run carry the same BatchCreateTimeEpoch,
\* whatever the clock does between the creation of the first and of the last
\* record
C21_SameBatchEpoch ==
    \A i, j \in 1..Len(all_spm_data) :
        all_spm_data[i].BatchCreateTimeEpoch = all_spm_data[j].BatchCreateTimeEpoch

----------------------------------------------------------------------------
\* C22: simple_decrypt(simple_encrypt(u)) = u for every printable-ASCII
\* text u, the empty text and texts that start with the key prefix or
\* contain ":" included, with the same static key on both sides
C22_DecryptInvertsEncrypt ==
    mpc = "decrypted" => unique_data = raw_data

C22_Witness ==
    /\ mpc = "decrypted"
    /\ startswith(raw_data, default_key \o <<Colon>>)
    /\ Len(raw_data) > Len(default_key) + 1
    /\ raw_data[Len(raw_data)] = Colon
    /\ unique_data = raw_data

----------------------------------------------------------------------------
\* C23: the timestamp get_timestamp("5min") returns, which keys the per-run
\* output directory, is rounded to a 5-minute boundary: its minute is a
\* multiple of 5, it is not later than the current time and it is less than
\* 5 minutes earlier than the current time
C23_FiveMinuteBoundary ==
    mpc = "returned" =>
        /\ unique_data.M % 5 = 0
        /\ InstantOf(unique_data) <= raw_data
        /\ raw_data - InstantOf(unique_data) < 300

----------------------------------------------------------------------------
\* C24: in one run the login command is issued at most once, and it is
\* issued by the main flow before any worker thread is started, so that no
\* two workers ever issue login concurrently: a worker exists only after the
\* login, and the step that issues the login is a step of main at its login
\* position, taken when no login was issued and no worker was started
NoWorkerStarted == threads = <<>> /\ \A sn \in Serials : w[sn].pc = "idle"

C24_LoginState == ~NoWorkerStarted => "login" \in issued /\ loginRc = 0

LoginIssuedInStep == loginRc' # loginRc \/ ("login" \in issued' /\ "login" \notin issued)

C24_LoginOnceBeforeWorkers ==
    /\ []C24_LoginState
    /\ [][LoginIssuedInStep =>
            /\ mpc = "login"
            /\ loginRc = -1
            /\ "login" \notin issued
            /\ NoWorkerStarted
            /\ UNCHANGED <<threads, w>>]_vars

C24_Witness ==
    /\ loginRc = 0
    /\ \E a, b \in Serials : a # b /\ w[a].pc = "port_cmd" /\ w[b].pc = "port_cmd"

----------------------------------------------------------------------------
\* C25: provided no two arrays produce records sharing (HostNickname,
\* ArrayPort, HostWWPN), the set of records that survives the deduplication
\* is the same for every order in which the workers of a group acquire the
\* lock and append: it is the set that survives when the workers append in
\* the order of their serials
NoSharedKeys(records) ==
    \A i, j \in 1..Len(records) :
        ClaimKey(records[i]) = ClaimKey(records[j])
            => records[i].ArraySerial = records[j].ArraySerial

\* the records of one array, in the order they have in the list
PerArray(records, a) ==
    SelectSeq(records, LAMBDA r : r.ArraySerial = a)

\* the list the same workers leave when they append in the order of
\* serial_numbers
RECURSIVE InSerialOrder(_, _)
InSerialOrder(records, sns) ==
    IF sns = <<>> THEN <<>>
    ELSE PerArray(records, Head(sns)) \o InSerialOrder(records, Tail(sns))

C25_SurvivorsOrderIndependent ==
    (script = "multi5" /\ mpc = "write" /\ NoSharedKeys(all_spm_data)) =>
        Range(unique_data) = Range(annotate(dedupe(InSerialOrder(all_spm_data, serial_numbers))))

C25_Witness ==
    /\ script = "multi5"
    /\ mpc = "write"
    /\ NoSharedKeys(all_spm_data)
    /\ Len(all_spm_data) >= 2
    /\ all_spm_data # InSerialOrder(all_spm_data, serial_numbers)
    /\ Len(unique_data) >= 2

----------------------------------------------------------------------------
\* the kinds of command of the delivery and of the collection
DeliveryCommands == {"mkdir", "scp", "ls"}
CollectionCommands == {"port", "host", "spm"}

\* no collection is under way: no worker is started and not yet joined, and
\* main is not inside its own collection loop
CollectionOver ==
    /\ threads = <<>>
    /\ \A sn \in Serials : w[sn].pc \in {"idle", "joined"}
    /\ m.pc \notin AtCommand

C26_StageOrder ==
    /\ issued \ {"logout"} # {} => "login" \in issued
    /\ (issued \cap CollectionCommands # {} /\ script \in {"multi5", "multi6"})
          => "raidqry" \in issued
    /\ issued \cap {"host", "spm"} # {} => "port" \in issued
    /\ (mpc \in {"send", "send6"} \/ issued \cap DeliveryCommands # {}) =>
          /\ CollectionOver
          /\ files # <<>>
          /\ "port" \in issued
          /\ mpc \in {"send", "send6", "logout", "fatal", "exit"}
    /\ "logout" \in issued =>
          /\ mpc = "exit" \/ (script = "multi5" /\ mpc = "fatal")
          /\ CollectionOver

----------------------------------------------------------------------------
\* the positions of the records of array a form one interval of the list;
\* C27_NoneOrAll is the part of C27 that speaks of one state: a worker that
\* ended with an error has contributed none of its records
Contiguous(records, a) ==
    LET at == {i \in 1..Len(records) : records[i].ArraySerial = a}
    IN  \A i, k \in at : \A j \in i..k : j \in at

C27_NoneOrAll ==
    script = "multi5" =>
        \A sn \in Serials :
            /\ Contiguous(all_spm_data, sn)
            /\ (w[sn].pc \in {"release", "done"} /\ w[sn].failed = "none")
                  => PerArray(all_spm_data, sn) = w[sn].local_spm_data
            /\ (w[sn].pc \in {"idle", "port_cmd", "host_cmd", "spm_cmd", "collected",
                              "extend", "dead"} \/ w[sn].failed # "none")
                  => PerArray(all_spm_data, sn) = <<>>

\* C27: a worker contributes to the shared collection in one atomic step at
\* its end: at every moment the collection holds, for each array, none or
\* all of the records its worker built, contiguous and in the order the
\* worker built them; the step that changes the collection appends the whole
\* local list of the one worker that holds the lock
C27_AtomicContribution ==
    /\ []C27_NoneOrAll
    /\ [][(script = "multi5" /\ all_spm_data' # all_spm_data) =>
            \E sn \in Serials :
                /\ w[sn].pc = "extend"
                /\ data_lock = sn
                /\ w'[sn].pc = "release"
                /\ all_spm_data' = all_spm_data \o w[sn].local_spm_data]_vars

C27_Witness ==
    /\ script = "multi5"
    /\ \E a, b \in Serials :
          /\ a # b
          /\ w[a].pc = "done" /\ Len(w[a].local_spm_data) >= 2
          /\ w[b].pc = "done" /\ Len(w[b].local_spm_data) >= 1
          /\ all_spm_data = w[b].local_spm_data \o w[a].local_spm_data

----------------------------------------------------------------------------
\* C28: if every external command invocation eventually returns, with any
\* exit status, every run terminates: each group barrier is eventually
\* released, also when a worker of the group ended early through a failed
\* command or an exception, and the process eventually exits
C28_RunTerminates == <>(mpc = "exit" /\ exitCode # -1)

\* the first join of a group returned for a worker that a failed command
\* ended, and the second worker of the group ended through an exception
C28_Witness ==
    /\ script = "multi5"
    /\ mpc = "join"
    /\ joinIdx = 2
    /\ w[threads[1]].pc = "dead"
    /\ w[threads[2]].failed = "exception"

----------------------------------------------------------------------------
\* C29: in the single-array pipeline the data file and the metadata file of
\* one report bundle carry the same 5-minute timestamp component in their
\* names, equal to the one of the directory they are written into, whatever
\* the clock does between the successive calls to get_timestamp
C29_BundleSameTimestamp ==
    mpc = "named" =>
        /\ files[2].stamp = files[3].stamp
        /\ files[2].stamp = files[2].file_path.stamp
        /\ files[3].stamp = files[3].file_path.stamp

----------------------------------------------------------------------------
\* C30: during ScriptExecutor.execute_batch, in every interleaving of the
\* launcher loop and the worker threads, the number of script processes
\* running at the same time never exceeds max_concurrent
C30_AtMostMaxConcurrent == Cardinality(RunningScripts) <= threadsArg

====
